---------------------------- MODULE Spec2Model ----------------------------
(***************************************************************************)
(* A model of havINI (src/havINI.hpp): the document model (havINIData,     *)
(* havINISection, havINIStream), the parser havINIStream::ParseFile, the   *)
(* serializer havINIStream::WriteFile and the escape codec.                *)
(*                                                                         *)
(* A std::string is a sequence of bytes 0..255.  A std::optional<string>   *)
(* is a record [has, val].  A call that leaves by an exception has the     *)
(* result "throw".                                                         *)
(***************************************************************************)
EXTENDS Integers, Sequences, FiniteSets, TLC

VARIABLES
    caseSensitive,          \* whether HAVINI_CASE_SENSITIVE is defined for the build
    mData,                  \* havINIStream::mData, the sections in insertion order
    mNewline,               \* havINIStream::mNewline
    mCommentCharacter,      \* havINIStream::mCommentCharacter
    mValueQuoteCharacter,   \* havINIStream::mValueQuoteCharacter
    mKeyValuePairDelimiter, \* havINIStream::mKeyValuePairDelimiter
    file,                   \* the INI file on disk: whether it was written, its bytes, the options
    origin,                 \* the file the document was loaded from, while nothing has changed it
    last,                   \* the last call on the stream: its name, arguments and result
    codec                   \* the escape codec's input, its decoded text and the re-encoded text

vars == <<caseSensitive, mData, mNewline, mCommentCharacter, mValueQuoteCharacter,
          mKeyValuePairDelimiter, file, origin, last, codec>>

style == <<mNewline, mCommentCharacter, mValueQuoteCharacter, mKeyValuePairDelimiter>>

-----------------------------------------------------------------------------
(* Characters and strings *)

\* The printable ASCII characters, code 32 first (code 96 is not used as a literal).
Ascii ==
    <<" ", "!", "\"", "#", "$", "%", "&", "'", "(", ")", "*", "+", ",", "-", ".", "/",
      "0", "1", "2", "3", "4", "5", "6", "7", "8", "9", ":", ";", "<", "=", ">", "?",
      "@", "A", "B", "C", "D", "E", "F", "G", "H", "I", "J", "K", "L", "M", "N", "O",
      "P", "Q", "R", "S", "T", "U", "V", "W", "X", "Y", "Z", "[", "\\", "]", "^", "_",
      "(grave)", "a", "b", "c", "d", "e", "f", "g", "h", "i", "j", "k", "l", "m", "n", "o",
      "p", "q", "r", "s", "t", "u", "v", "w", "x", "y", "z", "{", "|", "}", "~">>

\* The code of a printable character.
Ord(c) == 31 + (CHOOSE i \in 1..Len(Ascii) : Ascii[i] = c)

\* The std::string of a tuple of printable characters.
Str(t) == [i \in 1..Len(t) |-> Ord(t[i])]

NUL == 0
BS  == 8
TAB == 9
LF  == 10
VT  == 11
FF  == 12
CR  == 13

SPACE     == Ord(" ")
DQUOTE    == Ord("\"")
SQUOTE    == Ord("'")
HASH      == Ord("#")
SEMICOLON == Ord(";")
COLON     == Ord(":")
EQUALS    == Ord("=")
LBRACKET  == Ord("[")
RBRACKET  == Ord("]")
BACKSLASH == Ord("\\")
LOWER_X   == Ord("x")

\* std::ctype<char>::tolower in the "C" locale.
ToLowerChar(c) == IF c >= 65 /\ c <= 90 THEN c + 32 ELSE c

\* havUtils::ToLower
ToLower(value) == [i \in 1..Len(value) |-> ToLowerChar(value[i])]

\* A build that ignores case and has lost the calls of ToLower.
FoldDropped(value) == value

\* The code under "#ifndef HAVINI_CASE_SENSITIVE": fold, unless the build is case sensitive.
Fold(value) == IF caseSensitive THEN value ELSE ToLower(value)

\* std::isspace in the "C" locale.
IsSpace(c) == c = SPACE \/ (c >= TAB /\ c <= CR)

IsDigit(c) == c >= 48 /\ c <= 57

\* std::isxdigit in the "C" locale.
IsXDigit(c) == IsDigit(c) \/ (c >= 65 /\ c <= 70) \/ (c >= 97 /\ c <= 102)

\* value[i] of a std::string, 0-based: value[size()] is the terminating '\0'.
At(value, i) == IF i >= 0 /\ i < Len(value) THEN value[i + 1] ELSE NUL

\* std::string::find(ch, from): the 0-based position of the first ch at or after from, -1 for npos.
RECURSIVE FindChar(_, _, _)
FindChar(value, ch, from) ==
    IF from >= Len(value) THEN -1
    ELSE IF value[from + 1] = ch THEN from
    ELSE FindChar(value, ch, from + 1)

\* std::string::find_first_not_of(ch, from), -1 for npos.
RECURSIVE FindNotChar(_, _, _)
FindNotChar(value, ch, from) ==
    IF from >= Len(value) THEN -1
    ELSE IF value[from + 1] # ch THEN from
    ELSE FindNotChar(value, ch, from + 1)

\* std::string::substr(start, end - start) with 0-based start and end (end = -1: to the end).
Substr(value, start, end) ==
    SubSeq(value, start + 1, IF end < 0 THEN Len(value) ELSE end)

\* havUtils::Split with a one-character delimiter.
RECURSIVE SplitFrom(_, _, _, _)
SplitFrom(value, delimiter, end, result) ==
    LET start == IF end < 0 THEN -1 ELSE FindNotChar(value, delimiter, end) IN
    IF start < 0
    THEN IF result = <<>> THEN <<value>> ELSE result
    ELSE LET e == FindChar(value, delimiter, start) IN
         SplitFrom(value, delimiter, e, Append(result, Substr(value, start, e)))

Split(value, delimiter) == SplitFrom(value, delimiter, 0, <<>>)

StartsWith(sv, prefix) ==
    Len(sv) >= Len(prefix) /\ SubSeq(sv, 1, Len(prefix)) = prefix

EndsWith(sv, suffix) ==
    Len(sv) >= Len(suffix) /\ SubSeq(sv, Len(sv) - Len(suffix) + 1, Len(sv)) = suffix

\* An unsigned int is kept as the int of the same 32 bits: a value of 2^31 or more
\* is the negative number that is 2^32 less.
ULessEq(a, b) == IF (a >= 0) = (b >= 0) THEN a <= b ELSE a >= 0

\* n + 1 in unsigned int arithmetic.
UPlusOne(n) == IF n = 2147483647 THEN (-2147483647) - 1 ELSE n + 1

RECURSIVE Decimal(_)
Decimal(n) == IF n < 10 THEN <<48 + n>> ELSE Append(Decimal(n \div 10), 48 + (n % 10))

\* The last five decimal digits of a number, zeros included.
Decimal5(n) ==
    <<48 + ((n \div 10000) % 10), 48 + ((n \div 1000) % 10), 48 + ((n \div 100) % 10),
      48 + ((n \div 10) % 10), 48 + (n % 10)>>

\* std::to_string(unsigned int); 2^32 + n is 42949 * 10^5 + 67296 + n.
to_string(n) ==
    IF n >= 0 THEN Decimal(n)
    ELSE Decimal(42949 + ((67296 + n) \div 100000)) \o Decimal5((67296 + n) % 100000)

\* The value std::stol reads from the digits of s (of at most nine digits here).
RECURSIVE DigitsValue(_, _)
DigitsValue(s, acc) ==
    IF s = <<>> \/ ~IsDigit(Head(s)) THEN acc
    ELSE DigitsValue(Tail(s), acc * 10 + (Head(s) - 48))

RECURSIVE SkipSpaces(_)
SkipSpaces(s) == IF s # <<>> /\ IsSpace(Head(s)) THEN SkipSpaces(Tail(s)) ELSE s

\* std::stol(s) assigned to an unsigned int: leading white space, an optional sign,
\* then the digits; no digit at all throws std::invalid_argument.
Stol(s) ==
    LET t == SkipSpaces(s)
        signed == t # <<>> /\ Head(t) \in {Ord("-"), Ord("+")}
        d == IF signed THEN Tail(t) ELSE t
        v == DigitsValue(d, 0)
    IN  IF d = <<>> \/ ~IsDigit(Head(d))
        THEN [ok |-> FALSE, val |-> 0]
        ELSE [ok |-> TRUE, val |-> IF signed /\ Head(t) = Ord("-") THEN 0 - v ELSE v]

\* std::optional<std::string>
NullOpt == [has |-> FALSE, val |-> <<>>]
Some(value) == [has |-> TRUE, val |-> value]

-----------------------------------------------------------------------------
(* havINIData *)

TypeEmpty   == "Empty"
TypeComment == "Comment"
TypeValue   == "Value"
TypeArray   == "Array"

\* The constructors of havINIData: the inline comment starts as std::nullopt,
\* mArrayIndex as 0 and mArray empty.
NewData(key, value, valueType, addQuotes, hasArrayIndex) ==
    [mType |-> valueType, mKey |-> key, mValue |-> value, mInlineComment |-> NullOpt,
     mAddQuotes |-> addQuotes, mArrayIndex |-> 0, mHasArrayIndex |-> hasArrayIndex,
     mArray |-> <<>>]

\* havINIData::SetInlineComment and havINISection::SetInlineComment: the empty
\* string resets the optional.
OptInlineComment(inlineComment) ==
    IF inlineComment = <<>> THEN NullOpt ELSE Some(inlineComment)

Data_SetInlineComment(data, inlineComment) ==
    [data EXCEPT !.mInlineComment = OptInlineComment(inlineComment)]

\* std::find_if over a vector of havINIData by key: the 1-based position of the
\* first entry with that key, 0 for end().
FindKey(pairs, key) ==
    IF \E i \in 1..Len(pairs) : pairs[i].mKey = key
    THEN CHOOSE i \in 1..Len(pairs) :
            pairs[i].mKey = key /\ \A j \in 1..(i - 1) : pairs[j].mKey # key
    ELSE 0

\* havINIData::GetArrayIndex: [ok, val]; not ok when std::stol throws on a sub-key.
RECURSIVE ArrayIndexFrom(_, _, _)
ArrayIndexFrom(array, i, arrayIndex) ==
    IF i > Len(array) THEN [ok |-> TRUE, val |-> arrayIndex]
    ELSE LET arrayKey == Stol(array[i].mKey) IN
         IF ~arrayKey.ok THEN [ok |-> FALSE, val |-> 0]
         ELSE ArrayIndexFrom(array, i + 1,
                 IF ULessEq(arrayIndex, arrayKey.val)
                 THEN UPlusOne(arrayKey.val) ELSE arrayIndex)

GetArrayIndex(data) == ArrayIndexFrom(data.mArray, 1, 0)

\* The body of havINIData::SetArrayEntry once the key is known: the element
\* with the key is created, or updated.
Data_SetArrayKey(data, key, value, addQuotes, setInlineComment, inlineComment) ==
    LET found == FindKey(data.mArray, key)
        fresh == NewData(key, value, TypeValue, FALSE, FALSE)
    IN  IF found = 0
        THEN [data EXCEPT !.mArray = Append(@,
                 IF setInlineComment
                 THEN [fresh EXCEPT !.mInlineComment = OptInlineComment(inlineComment),
                                    !.mAddQuotes = addQuotes]
                 ELSE fresh)]
        ELSE [data EXCEPT !.mArray[found] =
                 [@ EXCEPT !.mValue = value,
                           !.mInlineComment = OptInlineComment(inlineComment),
                           !.mAddQuotes = addQuotes]]

\* havINIData::SetArrayEntry with an empty key, given what GetArrayIndex returned:
\* [ok, data]; not ok when GetArrayIndex throws, and then nothing has changed.
Data_SetArrayIndexed(data, idx, value, addQuotes, setInlineComment, inlineComment) ==
    IF ~idx.ok THEN [ok |-> FALSE, data |-> data]
    ELSE [ok |-> TRUE,
          data |-> Data_SetArrayKey([data EXCEPT !.mArrayIndex = idx.val],
                                    Fold(to_string(idx.val)), value, addQuotes,
                                    setInlineComment, inlineComment)]

\* havINIData::SetArrayEntry: [ok, data]
Data_SetArrayEntry(data, key0, value, addQuotes, setInlineComment, inlineComment) ==
    IF key0 = <<>>
    THEN Data_SetArrayIndexed(data, GetArrayIndex(data), value, addQuotes,
                              setInlineComment, inlineComment)
    ELSE [ok |-> TRUE,
          data |-> Data_SetArrayKey(data, Fold(key0), value, addQuotes,
                                    setInlineComment, inlineComment)]

-----------------------------------------------------------------------------
(* havINISection *)

PosStart == "Start"
PosEnd   == "End"
PosAbove == "Above"
PosBelow == "Below"
Positions == {PosStart, PosEnd, PosAbove, PosBelow}

\* The constructor of havINISection: no inline comment, no entries, both counters 0.
NewSection(sectionName) ==
    [mSectionName |-> sectionName, mInlineComment |-> NullOpt, mKeyValuePairs |-> <<>>,
     mCommentLineCount |-> 0, mEmptyLineCount |-> 0]

\* std::vector::insert(begin() + index, x) with a 0-based index.
InsertAt(pairs, index, x) ==
    SubSeq(pairs, 1, index) \o <<x>> \o SubSeq(pairs, index + 1, Len(pairs))

\* std::vector::erase of the 1-based position i.
EraseAt(pairs, i) == SubSeq(pairs, 1, i - 1) \o SubSeq(pairs, i + 1, Len(pairs))

\* data.GetKey() == otherKeyName, a std::string compared with a std::optional.
KeyIsOpt(key, opt) == opt.has /\ opt.val = key

FindOptKey(pairs, opt) == IF opt.has THEN FindKey(pairs, opt.val) ELSE 0

FoldOpt(opt) == IF opt.has THEN Some(Fold(opt.val)) ELSE opt

\* The common body of havINISection::SetComment and havINISection::SetEmptyLine:
\* [ret, pairs] with ret "true" (inserted), "false" (the key exists) or "throw" (the
\* anchor of Above or Below is not an entry of the section).
InsertPositioned(pairs, newEntry, position, otherKeyName) ==
    LET other == FindOptKey(pairs, otherKeyName)
        index == other - 1
    IN  IF FindKey(pairs, newEntry.mKey) # 0 THEN [ret |-> "false", pairs |-> pairs]
        ELSE IF position \in {PosAbove, PosBelow} /\ other = 0
        THEN [ret |-> "throw", pairs |-> pairs]
        ELSE [ret |-> "true",
              pairs |-> CASE position = PosStart -> InsertAt(pairs, 0, newEntry)
                          [] position = PosAbove -> InsertAt(pairs, index, newEntry)
                          [] position = PosBelow -> InsertAt(pairs, index + 1, newEntry)
                          [] OTHER -> InsertAt(pairs, Len(pairs), newEntry)]

\* havINISection::SetEmptyLine: [ret, sec]
Section_SetEmptyLine(sec, key, position, otherKeyName) ==
    LET r == InsertPositioned(sec.mKeyValuePairs,
                              NewData(Fold(key), <<>>, TypeEmpty, FALSE, FALSE),
                              position, FoldOpt(otherKeyName))
    IN  [ret |-> r.ret, sec |-> [sec EXCEPT !.mKeyValuePairs = r.pairs]]

\* havINISection::SetComment: [ret, sec]
Section_SetComment(sec, key, value, position, otherKeyName) ==
    LET r == InsertPositioned(sec.mKeyValuePairs,
                              NewData(Fold(key), value, TypeComment, FALSE, FALSE),
                              position, FoldOpt(otherKeyName))
    IN  [ret |-> r.ret, sec |-> [sec EXCEPT !.mKeyValuePairs = r.pairs]]

\* SetKeyValuePair without the search for an entry with the key.
SetKeyValuePairUnchecked(sec, key0, value, addQuotes) ==
    [sec EXCEPT !.mKeyValuePairs = Append(@, NewData(Fold(key0), value, TypeValue, addQuotes, FALSE))]

\* havINISection::SetKeyValuePair
Section_SetKeyValuePair(sec, key0, value, addQuotes) ==
    LET key == Fold(key0)
        found == FindKey(sec.mKeyValuePairs, key)
    IN  IF found # 0
        THEN [sec EXCEPT !.mKeyValuePairs[found] =
                            [@ EXCEPT !.mValue = value, !.mAddQuotes = addQuotes]]
        ELSE [sec EXCEPT !.mKeyValuePairs =
                            Append(@, NewData(key, value, TypeValue, addQuotes, FALSE))]

\* The section whose entry at position at has become r.data: [ok, sec].
WithArrayEntry(sec, pairs, at, r) ==
    [ok |-> r.ok, sec |-> [sec EXCEPT !.mKeyValuePairs = [pairs EXCEPT ![at] = r.data]]]

\* havINISection::SetArrayEntry: [ok, sec]; not ok when havINIData::SetArrayEntry
\* throws.  A new entry is built by havINIData(key, valueType, addQuotes,
\* hasArrayIndex) called with (key, Array, hasArrayIndex): the flag lands in
\* addQuotes, and mHasArrayIndex keeps its default, false.
Section_SetArrayEntry(sec, key0, value, addQuotes, setInlineComment, inlineComment, arrayIndex, hasArrayIndex) ==
    LET key == Fold(key0)
        found == FindKey(sec.mKeyValuePairs, key)
        pairs == IF found # 0 THEN sec.mKeyValuePairs
                 ELSE Append(sec.mKeyValuePairs,
                             NewData(key, <<>>, TypeArray, hasArrayIndex, FALSE))
        at == IF found # 0 THEN found ELSE Len(pairs)
    IN  WithArrayEntry(sec, pairs, at,
                       Data_SetArrayEntry(pairs[at], IF hasArrayIndex THEN arrayIndex ELSE <<>>,
                                          value, addQuotes, setInlineComment, inlineComment))

\* havINISection::operator[](std::string): the entry is created when it is missing.
Section_Index(sec, key0) ==
    LET key == Fold(key0) IN
    IF FindKey(sec.mKeyValuePairs, key) # 0 THEN sec
    ELSE [sec EXCEPT !.mKeyValuePairs = Append(@, NewData(key, <<>>, TypeValue, FALSE, FALSE))]

\* havINISection::RemoveKeyValuePair(std::string)
Section_RemoveKeyValuePair(sec, keyName) ==
    LET found == FindKey(sec.mKeyValuePairs, Fold(keyName)) IN
    IF found # 0 THEN [sec EXCEPT !.mKeyValuePairs = EraseAt(@, found)] ELSE sec

\* std::find_if by key and type, as in RemoveComment and RemoveEmptyLine.
FindKeyOfType(pairs, key, type) ==
    IF \E i \in 1..Len(pairs) : pairs[i].mKey = key /\ pairs[i].mType = type
    THEN CHOOSE i \in 1..Len(pairs) :
            /\ pairs[i].mKey = key /\ pairs[i].mType = type
            /\ \A j \in 1..(i - 1) : ~(pairs[j].mKey = key /\ pairs[j].mType = type)
    ELSE 0

\* RemoveComment that erases the entry with the key before it tests its type.
Section_RemoveCommentOfAnyKind(sec, keyName) ==
    LET found == FindKey(sec.mKeyValuePairs, Fold(keyName)) IN
    IF found # 0
    THEN [ret |-> IF sec.mKeyValuePairs[found].mType = TypeComment THEN "true" ELSE "false",
          sec |-> [sec EXCEPT !.mKeyValuePairs = EraseAt(@, found)]]
    ELSE [ret |-> "false", sec |-> sec]

\* havINISection::RemoveComment: [ret, sec]
Section_RemoveComment(sec, keyName) ==
    LET found == FindKeyOfType(sec.mKeyValuePairs, Fold(keyName), TypeComment) IN
    IF found # 0
    THEN [ret |-> "true", sec |-> [sec EXCEPT !.mKeyValuePairs = EraseAt(@, found)]]
    ELSE [ret |-> "false", sec |-> sec]

\* havINISection::RemoveEmptyLine: [ret, sec]
Section_RemoveEmptyLine(sec, keyName) ==
    LET found == FindKeyOfType(sec.mKeyValuePairs, Fold(keyName), TypeEmpty) IN
    IF found # 0
    THEN [ret |-> "true", sec |-> [sec EXCEPT !.mKeyValuePairs = EraseAt(@, found)]]
    ELSE [ret |-> "false", sec |-> sec]

\* havINISection::Clear
Section_Clear(sec) ==
    [sec EXCEPT !.mInlineComment = NullOpt, !.mKeyValuePairs = <<>>,
                !.mCommentLineCount = 0, !.mEmptyLineCount = 0]

-----------------------------------------------------------------------------
(* havINIStream: the document *)

\* The name of the reserved section the constructor creates.
HI_Global == Str(<<"H","I","_","G","l","o","b","a","l">>)
hi_global == Str(<<"h","i","_","g","l","o","b","a","l">>)
GlobalName == IF caseSensitive THEN HI_Global ELSE hi_global

\* The name an empty section name stands for in SetComment, SetEmptyLine,
\* RemoveComment and RemoveEmptyLine.
EmptyMeansGlobal(sectionName) ==
    IF sectionName = <<>> THEN HI_Global ELSE sectionName

HI_C_ == Str(<<"H","I","_","C","_">>)
hi_c_ == Str(<<"h","i","_","c","_">>)
CommentKeyStart == IF caseSensitive THEN HI_C_ ELSE hi_c_

HI_EL_ == Str(<<"H","I","_","E","L","_">>)
hi_el_ == Str(<<"h","i","_","e","l","_">>)
EmptyLineKeyStart == IF caseSensitive THEN HI_EL_ ELSE hi_el_

\* havINIStream::havINIStream
NewStream == <<NewSection(GlobalName)>>

\* std::find_if over mData by section name: the 1-based position, 0 for end().
FindSection(data, sectionName) ==
    IF \E i \in 1..Len(data) : data[i].mSectionName = sectionName
    THEN CHOOSE i \in 1..Len(data) :
            /\ data[i].mSectionName = sectionName
            /\ \A j \in 1..(i - 1) : data[j].mSectionName # sectionName
    ELSE 0

\* havINIStream::HasSection
HasSection(data, sectionName) == FindSection(data, Fold(sectionName)) # 0

\* havINIStream::GetSection
GetSection(data, sectionName) == FindSection(data, Fold(sectionName))

\* havINIStream::operator[](std::string): the section is created when it is missing.
Stream_Index(data, sectionName0) ==
    LET sectionName == Fold(sectionName0) IN
    IF FindSection(data, sectionName) # 0 THEN data
    ELSE Append(data, NewSection(sectionName))

\* AddSection without the search for a section of that name.
AddSectionUnchecked(data, sectionName0) ==
    [ret |-> "true", data |-> Append(data, NewSection(Fold(sectionName0)))]

\* havINIStream::AddSection: [ret, data]
Stream_AddSection(data, sectionName0) ==
    LET sectionName == Fold(sectionName0) IN
    IF FindSection(data, sectionName) = 0
    THEN [ret |-> "true", data |-> Append(data, NewSection(sectionName))]
    ELSE [ret |-> "false", data |-> data]

\* GetValue without the case folding of the key name.
GetValueUnfolded(data, sectionName, keyName, defaultValue) ==
    LET at == FindSection(data, Fold(sectionName))
        found == IF at = 0 THEN 0 ELSE FindKey(data[at].mKeyValuePairs, keyName)
    IN  IF found # 0 THEN data[at].mKeyValuePairs[found].mValue ELSE defaultValue

\* havINIStream::GetValue
Stream_GetValue(data, sectionName, keyName, defaultValue) ==
    LET at == FindSection(data, Fold(sectionName))
        found == IF at = 0 THEN 0 ELSE FindKey(data[at].mKeyValuePairs, Fold(keyName))
    IN  IF found # 0 THEN data[at].mKeyValuePairs[found].mValue ELSE defaultValue

\* havINIStream::SetValue: [ret, data]
Stream_SetValue(data, sectionName0, keyName0, value, addQuotes) ==
    LET sectionName == Fold(sectionName0)
        keyName == Fold(keyName0)
        at == FindSection(data, sectionName)
    IN  IF at # 0
        THEN [ret |-> "true",
              data |-> [data EXCEPT ![at] = Section_SetKeyValuePair(@, keyName, value, addQuotes)]]
        ELSE [ret |-> "true",
              data |-> Append(data, Section_SetKeyValuePair(NewSection(sectionName), keyName,
                                                            value, addQuotes))]

\* havINIStream::SetComment: [ret, data].  The key of the new entry is
\* commentKeyStart + std::to_string(GetCommentLineCount()): the counter is
\* advanced before havINISection::SetComment runs, whose result is not read.
Stream_SetComment(data, sectionName0, comment, position, keyName) ==
    LET sectionName == Fold(EmptyMeansGlobal(sectionName0))
        at == FindSection(data, sectionName)
        count == data[at].mCommentLineCount + 1
        counted == [data[at] EXCEPT !.mCommentLineCount = count]
        r == Section_SetComment(counted, CommentKeyStart \o to_string(count), comment,
                                position, FoldOpt(keyName))
    IN  IF at = 0 THEN [ret |-> "false", data |-> data]
        ELSE [ret |-> IF r.ret = "throw" THEN "throw" ELSE "true",
              data |-> [data EXCEPT ![at] = r.sec]]

\* havINIStream::SetEmptyLine: [ret, data], as SetComment with GetEmptyLineCount.
Stream_SetEmptyLine(data, sectionName0, position, keyName) ==
    LET sectionName == Fold(EmptyMeansGlobal(sectionName0))
        at == FindSection(data, sectionName)
        count == data[at].mEmptyLineCount + 1
        counted == [data[at] EXCEPT !.mEmptyLineCount = count]
        r == Section_SetEmptyLine(counted, EmptyLineKeyStart \o to_string(count),
                                  position, FoldOpt(keyName))
    IN  IF at = 0 THEN [ret |-> "false", data |-> data]
        ELSE [ret |-> IF r.ret = "throw" THEN "throw" ELSE "true",
              data |-> [data EXCEPT ![at] = r.sec]]

\* havINIStream::RemoveComment: [ret, data]
Stream_RemoveComment(data, sectionName0, keyName) ==
    LET at == FindSection(data, Fold(EmptyMeansGlobal(sectionName0)))
        r == Section_RemoveComment(data[at], Fold(keyName))
    IN  IF at = 0 THEN [ret |-> "false", data |-> data]
        ELSE [ret |-> r.ret, data |-> [data EXCEPT ![at] = r.sec]]

\* havINIStream::RemoveEmptyLine: [ret, data]
Stream_RemoveEmptyLine(data, sectionName0, keyName) ==
    LET at == FindSection(data, Fold(EmptyMeansGlobal(sectionName0)))
        r == Section_RemoveEmptyLine(data[at], Fold(keyName))
    IN  IF at = 0 THEN [ret |-> "false", data |-> data]
        ELSE [ret |-> r.ret, data |-> [data EXCEPT ![at] = r.sec]]

\* havINIStream::SetInlineComment: [ret, data]
Stream_SetInlineComment(data, sectionName, keyName, inlineComment) ==
    LET at == FindSection(data, Fold(sectionName))
        found == IF at = 0 THEN 0 ELSE FindKey(data[at].mKeyValuePairs, Fold(keyName))
    IN  IF found = 0 THEN [ret |-> "false", data |-> data]
        ELSE [ret |-> "true",
              data |-> [data EXCEPT ![at].mKeyValuePairs[found] =
                                        Data_SetInlineComment(@, inlineComment)]]

\* havINIStream::RemoveKey: [ret, data]
Stream_RemoveKey(data, sectionName, keyName) ==
    LET at == FindSection(data, Fold(sectionName))
        found == IF at = 0 THEN 0 ELSE FindKey(data[at].mKeyValuePairs, Fold(keyName))
    IN  IF found = 0 THEN [ret |-> "false", data |-> data]
        ELSE [ret |-> "true", data |-> [data EXCEPT ![at].mKeyValuePairs = EraseAt(@, found)]]

\* havINIStream::RemoveSection: [ret, data]
Stream_RemoveSection(data, sectionName) ==
    LET at == FindSection(data, Fold(sectionName)) IN
    IF at = 0 THEN [ret |-> "false", data |-> data]
    ELSE [ret |-> "true", data |-> EraseAt(data, at)]

\* RenameKey without the search for an entry with the new key.
RenameKeyUnchecked(data, sectionName, oldKeyName, newKeyName) ==
    LET at == FindSection(data, Fold(sectionName))
        found == IF at = 0 THEN 0 ELSE FindKey(data[at].mKeyValuePairs, Fold(oldKeyName))
    IN  IF at # 0 /\ found # 0
        THEN [ret |-> "true",
              data |-> [data EXCEPT ![at].mKeyValuePairs[found].mKey = Fold(newKeyName)]]
        ELSE [ret |-> "false", data |-> data]

\* havINIStream::RenameKey: [ret, data]
Stream_RenameKey(data, sectionName, oldKeyName, newKeyName) ==
    LET at == FindSection(data, Fold(sectionName))
        taken == IF at = 0 THEN 0 ELSE FindKey(data[at].mKeyValuePairs, Fold(newKeyName))
        found == IF at = 0 THEN 0 ELSE FindKey(data[at].mKeyValuePairs, Fold(oldKeyName))
    IN  IF at # 0 /\ taken = 0 /\ found # 0
        THEN [ret |-> "true",
              data |-> [data EXCEPT ![at].mKeyValuePairs[found].mKey = Fold(newKeyName)]]
        ELSE [ret |-> "false", data |-> data]

\* havINIStream::RenameSection: [ret, data]
Stream_RenameSection(data, oldSectionName, newSectionName) ==
    LET taken == FindSection(data, Fold(newSectionName))
        found == FindSection(data, Fold(oldSectionName))
    IN  IF taken = 0 /\ found # 0
        THEN [ret |-> "true", data |-> [data EXCEPT ![found].mSectionName = Fold(newSectionName)]]
        ELSE [ret |-> "false", data |-> data]

\* havINIStream::SetSectionInlineComment: [ret, data]
Stream_SetSectionInlineComment(data, sectionName, inlineComment) ==
    LET at == FindSection(data, Fold(sectionName)) IN
    IF at = 0 THEN [ret |-> "false", data |-> data]
    ELSE [ret |-> "true",
          data |-> [data EXCEPT ![at].mInlineComment = OptInlineComment(inlineComment)]]

\* havINIStream::ClearSection: [ret, data]
Stream_ClearSection(data, sectionName) ==
    LET at == FindSection(data, Fold(sectionName)) IN
    IF at = 0 THEN [ret |-> "false", data |-> data]
    ELSE [ret |-> "true", data |-> [data EXCEPT ![at] = Section_Clear(@)]]

\* The document whose section at position at has become r.sec: [ret, data].
WithArraySection(data, at, r) ==
    [ret |-> IF r.ok THEN "true" ELSE "throw", data |-> [data EXCEPT ![at] = r.sec]]

\* stream[sectionName].SetArrayEntry(...): havINIStream::operator[] and then
\* havINISection::SetArrayEntry; [ret, data] with ret "throw" when std::stol throws.
Stream_SetArrayEntry(data, sectionName, key, value, addQuotes, setInlineComment, inlineComment, arrayIndex, hasArrayIndex) ==
    LET d1 == Stream_Index(data, sectionName)
        at == FindSection(d1, Fold(sectionName))
    IN  WithArraySection(d1, at,
                         Section_SetArrayEntry(d1[at], key, value, addQuotes, setInlineComment,
                                               inlineComment, arrayIndex, hasArrayIndex))

-----------------------------------------------------------------------------
(* The escape codec *)

HexDigitValue(c) ==
    IF IsDigit(c) THEN c - 48 ELSE IF c >= 97 THEN c - 87 ELSE c - 55

\* std::strtol(hexString, nullptr, 16)
RECURSIVE HexValue(_, _)
HexValue(hexString, acc) ==
    IF hexString = <<>> THEN acc
    ELSE HexValue(Tail(hexString), acc * 16 + HexDigitValue(Head(hexString)))

\* havINIStream::CodePointToString: the UTF-8 bytes of a code point; the buffer is
\* read as a C string, so code point 0 gives the empty string.
CodePointToString(codePoint) ==
    IF codePoint = 0 THEN <<>>
    ELSE IF codePoint < 128 THEN <<codePoint>>
    ELSE IF codePoint < 2048
    THEN <<192 + (codePoint \div 64), 128 + (codePoint % 64)>>
    ELSE IF codePoint < 65536
    THEN <<224 + (codePoint \div 4096), 128 + ((codePoint \div 64) % 64),
           128 + (codePoint % 64)>>
    ELSE IF codePoint < 1114112
    THEN <<240 + (codePoint \div 262144), 128 + ((codePoint \div 4096) % 64),
           128 + ((codePoint \div 64) % 64), 128 + (codePoint % 64)>>
    ELSE <<>>

-----------------------------------------------------------------------------
(* havINIStream::ParseFile: the line segmenter *)

\* The loop that reads up to 4 hexadecimal digits after "\x".  index is the
\* 0-based position before the next ++index.  st is "eof" (the read ran past the
\* end: the code throws), "text" (a character that is no hexadecimal digit, at
\* index) or "hex" (4 digits read, the last one at index).
RECURSIVE ScanHex(_, _, _, _)
ScanHex(fileContents, index, valueIndex, hexString) ==
    IF valueIndex = 4 THEN [st |-> "hex", hexString |-> hexString, index |-> index]
    ELSE IF index + 1 >= Len(fileContents)
    THEN [st |-> "eof", hexString |-> hexString, index |-> index + 1]
    ELSE IF ~IsXDigit(At(fileContents, index + 1))
    THEN [st |-> "text", hexString |-> hexString, index |-> index + 1]
    ELSE ScanHex(fileContents, index + 1, valueIndex + 1,
                 Append(hexString, At(fileContents, index + 1)))

IsHighSurrogate(codePoint) == codePoint >= 55296 /\ codePoint <= 56319
IsLowSurrogate(codePoint) == codePoint >= 56320 /\ codePoint <= 57343

\* The case '\\' of the segmenter, entered with index at the backslash:
\* [ok, text, next] with the text to append to the line and the position the loop
\* goes on from; not ok when the code throws std::runtime_error.
Unescape(fileContents, index) ==
    LET size == Len(fileContents)
        Throw == [ok |-> FALSE, text |-> <<>>, next |-> size]
        h1 == ScanHex(fileContents, index + 1, 0, <<>>)
        codePoint == HexValue(h1.hexString, 0)
        i2 == h1.index + 1
        i3 == i2 + 1
        h2 == ScanHex(fileContents, i3, 0, <<>>)
        secondCodePoint == HexValue(h2.hexString, 0)
        Single == [ok |-> TRUE, text |-> CodePointToString(codePoint), next |-> i2]
    IN  IF index + 1 >= size THEN [ok |-> TRUE, text |-> <<>>, next |-> index + 2]
        ELSE IF At(fileContents, index + 1) # LOWER_X THEN Throw
        ELSE IF h1.st = "eof" THEN Throw
        ELSE IF h1.st = "text"
        THEN [ok |-> TRUE, text |-> <<LOWER_X>> \o h1.hexString, next |-> h1.index]
        ELSE IF ~(At(fileContents, i2) = BACKSLASH /\ i2 < size) THEN Single
        ELSE IF ~(At(fileContents, i3) = LOWER_X /\ i3 < size) THEN Single
        ELSE IF h2.st # "hex" THEN Throw
        ELSE IF ~IsHighSurrogate(codePoint) THEN Single
        ELSE IF ~IsLowSurrogate(secondCodePoint) THEN Throw
        ELSE [ok |-> TRUE,
              text |-> CodePointToString(65536 + ((codePoint - 55296) * 1024)
                                               + (secondCodePoint - 56320)),
              next |-> h2.index + 1]

\* The loop "Read INI file contents": [ok, buffer].  A CR that is not the last
\* character skips the character after it, whatever it is, and ends the line.
RECURSIVE SegmentFrom(_, _, _, _)
SegmentFrom(fileContents, index, line, buffer) ==
    LET c == At(fileContents, index)
        u == Unescape(fileContents, index)
    IN  IF index >= Len(fileContents)
        THEN [ok |-> TRUE,
              buffer |-> IF line # <<>> THEN Append(buffer, Append(line, LF)) ELSE buffer]
        ELSE IF c = CR
        THEN IF index + 1 >= Len(fileContents)
             THEN SegmentFrom(fileContents, index + 2, line, buffer)
             ELSE SegmentFrom(fileContents, index + 2, <<>>, Append(buffer, Append(line, LF)))
        ELSE IF c = LF
        THEN SegmentFrom(fileContents, index + 1, <<>>, Append(buffer, Append(line, LF)))
        ELSE IF c = BACKSLASH
        THEN IF u.ok THEN SegmentFrom(fileContents, u.next, line \o u.text, buffer)
             ELSE [ok |-> FALSE, buffer |-> buffer]
        ELSE SegmentFrom(fileContents, index + 1, Append(line, c), buffer)

Segment(fileContents) == SegmentFrom(fileContents, 0, <<>>, <<>>)

-----------------------------------------------------------------------------
(* havINIStream::ParseFile: the parser of one line *)

IsCommentChar(c) == c = SEMICOLON \/ c = HASH
IsQuoteChar(c) == c = DQUOTE \/ c = SQUOTE

\* The loop "Remove whitespaces": white space is dropped outside a comment and
\* outside quotes.
RECURSIVE StripFrom(_, _, _, _, _)
StripFrom(line, cIndex, commentSection, valueSection, tmpLine) ==
    LET c == At(line, cIndex)
        comment == commentSection \/ IsCommentChar(c)
        value == IF IsQuoteChar(c) THEN ~valueSection ELSE valueSection
    IN  IF cIndex >= Len(line) THEN tmpLine
        ELSE StripFrom(line, cIndex + 1, comment, value,
                       IF (~comment /\ ~value) /\ IsSpace(c) THEN tmpLine
                       ELSE Append(tmpLine, c))

\* The characters of line from characterIndex up to the next LF.
RECURSIVE RestOfLine(_, _)
RestOfLine(line, characterIndex) ==
    IF At(line, characterIndex) = LF \/ characterIndex >= Len(line) THEN <<>>
    ELSE <<At(line, characterIndex)>> \o RestOfLine(line, characterIndex + 1)

\* "Remove potential space character"
DropLeadingSpace(text) == IF text # <<>> /\ Head(text) = SPACE THEN Tail(text) ELSE text

\* The section a parsed entry goes to: the section of that name, appended to the
\* document when it is missing.
WithSection(data, sectionName) ==
    IF HasSection(data, sectionName) THEN data ELSE Append(data, NewSection(sectionName))

\* The branch "Empty line" of the parser.
ParseEmptyLine(data, sectionName) ==
    LET d1 == WithSection(data, sectionName)
        at == GetSection(d1, sectionName)
        count == d1[at].mEmptyLineCount + 1
        r == Section_SetEmptyLine([d1[at] EXCEPT !.mEmptyLineCount = count],
                                  EmptyLineKeyStart \o to_string(count), PosEnd, NullOpt)
    IN  [d1 EXCEPT ![at] = r.sec]

\* The branch "Comment" of the parser; line starts with the comment character.
ParseComment(data, sectionName, line) ==
    LET text0 == DropLeadingSpace(Tail(line))
        text == IF text0 # <<>> /\ text0[Len(text0)] = LF
                THEN SubSeq(text0, 1, Len(text0) - 1) ELSE text0
        d1 == WithSection(data, sectionName)
        at == GetSection(d1, sectionName)
        count == d1[at].mCommentLineCount + 1
        r == Section_SetComment([d1[at] EXCEPT !.mCommentLineCount = count],
                                CommentKeyStart \o to_string(count), text, PosEnd, NullOpt)
    IN  [d1 EXCEPT ![at] = r.sec]

\* The loop over a section header.  h is [sectionName, newSection, errorMessage,
\* data]; the loop ends at the LF, at an error, or after the section's inline comment.
RECURSIVE HeaderFrom(_, _, _)
HeaderFrom(line, characterIndex, h) ==
    LET c == At(line, characterIndex)
        sectionInlineComment == DropLeadingSpace(RestOfLine(line, characterIndex + 1))
        name == Fold(h.sectionName)
        d1 == WithSection(h.data, name)
        at == GetSection(d1, name)
    IN  IF c = LF THEN h
        ELSE IF c = LBRACKET /\ characterIndex > 0
        THEN [h EXCEPT !.errorMessage = Append(@, "New section started within section tag!")]
        ELSE IF c = LBRACKET \/ c = SPACE THEN HeaderFrom(line, characterIndex + 1, h)
        ELSE IF c = RBRACKET
        THEN HeaderFrom(line, characterIndex + 1, [h EXCEPT !.newSection = FALSE])
        ELSE IF IsCommentChar(c)
        THEN IF h.newSection
             THEN [h EXCEPT !.errorMessage = Append(@, "Found comment tag within section tag!")]
             ELSE [h EXCEPT !.sectionName = name,
                            !.data = [d1 EXCEPT ![at].mInlineComment =
                                                    OptInlineComment(sectionInlineComment)]]
        ELSE HeaderFrom(line, characterIndex + 1, [h EXCEPT !.sectionName = Append(@, c)])

\* The branch "Section" of the parser.
ParseHeader(line, st) ==
    LET h == HeaderFrom(line, 0, [sectionName |-> <<>>, newSection |-> TRUE,
                                  errorMessage |-> st.errorMessage, data |-> st.data])
        errorMessage == IF h.newSection
                        THEN Append(h.errorMessage, "Section end tag was not found!")
                        ELSE h.errorMessage
    IN  [st EXCEPT !.data = h.data,
                   !.sectionName = Fold(h.sectionName),
                   !.newSection = h.newSection,
                   !.newKey = (errorMessage = <<>>),
                   !.newValue = FALSE,
                   !.stringValue = FALSE,
                   !.errorMessage = errorMessage]

\* The first of the two delimiters in the line: [found, at, ch].
Delimiter(line) ==
    LET foundCharacter == FindChar(line, EQUALS, 0)
        foundCharacter2 == FindChar(line, COLON, 0)
    IN  IF foundCharacter < 0 /\ foundCharacter2 < 0 THEN [found |-> FALSE, at |-> 0, ch |-> NUL]
        ELSE IF foundCharacter >= 0 /\ foundCharacter2 >= 0
        THEN IF foundCharacter > foundCharacter2
             THEN [found |-> TRUE, at |-> foundCharacter2, ch |-> COLON]
             ELSE [found |-> TRUE, at |-> foundCharacter, ch |-> EQUALS]
        ELSE IF foundCharacter2 >= 0 THEN [found |-> TRUE, at |-> foundCharacter2, ch |-> COLON]
        ELSE [found |-> TRUE, at |-> foundCharacter, ch |-> EQUALS]

\* The loop over the key.  k is [keyName, newKey, errorMessage].
RECURSIVE KeyFrom(_, _, _, _, _)
KeyFrom(line, characterIndex, endCharacter, isArrayKey, k) ==
    LET c == At(line, characterIndex)
        atEnd == At(line, characterIndex + 1) = endCharacter
    IN  IF c = endCharacter \/ characterIndex >= Len(line) THEN k
        ELSE IF c = SPACE
        THEN KeyFrom(line, characterIndex + 1, endCharacter, isArrayKey,
                     IF atEnd THEN [k EXCEPT !.newKey = FALSE] ELSE k)
        ELSE IF ~isArrayKey /\ c = LBRACKET
        THEN [k EXCEPT !.errorMessage = Append(@, "Start section tag within key tag!")]
        ELSE IF ~isArrayKey /\ c = RBRACKET
        THEN [k EXCEPT !.errorMessage = Append(@, "Close section tag within key tag!")]
        ELSE IF isArrayKey /\ c = LBRACKET THEN [k EXCEPT !.newKey = FALSE]
        ELSE IF IsCommentChar(c)
        THEN [k EXCEPT !.errorMessage = Append(@, "Found comment tag within key tag!")]
        ELSE KeyFrom(line, characterIndex + 1, endCharacter, isArrayKey,
                     [k EXCEPT !.keyName = Append(@, c),
                               !.newKey = IF atEnd THEN FALSE ELSE @])

\* The block "if (newKey == true)" of the parser.
ParseKey(line, st) ==
    LET d == Delimiter(line)
        fullKey == Split(line, d.ch)[1]
        emptyIndex == EndsWith(fullKey, <<LBRACKET, RBRACKET>>)
        givenIndex == /\ ~emptyIndex
                      /\ ~StartsWith(fullKey, <<LBRACKET>>)
                      /\ EndsWith(fullKey, <<RBRACKET>>)
                      /\ FindChar(fullKey, LBRACKET, 0) >= 0
        index0 == Split(fullKey, LBRACKET)[2]
        isArrayKey == emptyIndex \/ givenIndex
        k == KeyFrom(line, 0, d.ch, isArrayKey,
                     [keyName |-> <<>>, newKey |-> st.newKey, errorMessage |-> st.errorMessage])
        errorMessage == IF k.newKey
                        THEN Append(k.errorMessage, "Key end tag was not found!")
                        ELSE k.errorMessage
    IN  IF ~d.found
        THEN [st EXCEPT !.keyName = <<>>,
                        !.errorMessage = Append(@, "No = or : sign found!")]
        ELSE [st EXCEPT !.keyName = IF errorMessage = <<>> THEN Fold(k.keyName) ELSE k.keyName,
                        !.isArrayKey = isArrayKey,
                        !.hasArrayIndex = givenIndex,
                        !.arrayIndex = IF givenIndex THEN SubSeq(index0, 1, Len(index0) - 1) ELSE @,
                        !.newKey = IF errorMessage = <<>> THEN FALSE ELSE k.newKey,
                        !.newValue = IF errorMessage = <<>> THEN TRUE ELSE @,
                        !.errorMessage = errorMessage]

\* The loop that counts allQuoteCharacters: pairs of a double quote followed,
\* later in the line, by a single quote, searched from position 1 on.
RECURSIVE CountQuotes(_, _, _)
CountQuotes(line, quoteCharacterPos, allQuoteCharacters) ==
    LET first == FindChar(line, DQUOTE, quoteCharacterPos + 1)
        second == IF first < 0 THEN -1 ELSE FindChar(line, SQUOTE, first + 1)
    IN  IF second < 0 THEN allQuoteCharacters
        ELSE CountQuotes(line, second, allQuoteCharacters + 1)

\* The loop over the value.  v is [value, stringValue, newValue, errorMessage,
\* addQuotes, currentQuoteCharacter, hasInlineComment, inlineComment, emptyFront];
\* emptyFront records inlineComment.front() called on an empty string.
RECURSIVE ValueFrom(_, _, _, _)
ValueFrom(line, characterIndex, allQuoteCharacters, v) ==
    LET c == At(line, characterIndex)
        next == At(line, characterIndex + 1)
        quote == IsQuoteChar(c)
        many == allQuoteCharacters > 2
        counted == IF many /\ quote /\ v.stringValue /\ v.currentQuoteCharacter < allQuoteCharacters
                   THEN v.currentQuoteCharacter + 1 ELSE v.currentQuoteCharacter
        opens == quote /\ ~v.stringValue /\ (many => v.currentQuoteCharacter = 0)
        closes == quote /\ v.stringValue /\ (many => counted = allQuoteCharacters)
        comment == RestOfLine(line, characterIndex + 1)
    IN  IF c = LF \/ characterIndex >= Len(line) THEN v
        ELSE IF c = SPACE /\ ~v.stringValue
        THEN ValueFrom(line, characterIndex + 1, allQuoteCharacters,
                       IF next = LF THEN [v EXCEPT !.newValue = FALSE] ELSE v)
        ELSE IF c = LBRACKET
        THEN [v EXCEPT !.errorMessage = Append(@, "Start section tag within value tag!")]
        ELSE IF c = RBRACKET
        THEN [v EXCEPT !.errorMessage = Append(@, "Close section tag within value tag!")]
        ELSE IF opens
        THEN ValueFrom(line, characterIndex + 1, allQuoteCharacters,
                       [v EXCEPT !.stringValue = TRUE,
                                 !.currentQuoteCharacter = IF many THEN @ + 1 ELSE @])
        ELSE IF closes
        THEN ValueFrom(line, characterIndex + 1, allQuoteCharacters,
                       [v EXCEPT !.stringValue = FALSE, !.addQuotes = TRUE,
                                 !.currentQuoteCharacter = IF many THEN counted + 1 ELSE @])
        ELSE IF ~v.stringValue /\ IsCommentChar(c)
        THEN [v EXCEPT !.hasInlineComment = TRUE,
                       !.inlineComment = DropLeadingSpace(v.inlineComment \o comment),
                       !.emptyFront = (v.inlineComment \o comment = <<>>),
                       !.currentQuoteCharacter = counted,
                       !.newValue = FALSE]
        ELSE IF next = LF /\ v.stringValue
        THEN [v EXCEPT !.value = Append(@, c), !.currentQuoteCharacter = counted,
                       !.errorMessage = Append(@, "String end tag not defined!")]
        ELSE ValueFrom(line, characterIndex + 1, allQuoteCharacters,
                       [v EXCEPT !.value = Append(@, c), !.currentQuoteCharacter = counted,
                                 !.newValue = IF next = LF THEN FALSE ELSE @])

\* The document after SetArrayEntry on a parsed array key returned a: [ok, data].
\* The section comes from operator[], which has added it to the document by the
\* time SetArrayEntry throws; a section the parser creates itself is a local that
\* is pushed only after the insertion.
InsertedArray(data, sectionName, d1, at, a) ==
    [ok |-> a.ok,
     data |-> IF a.ok \/ HasSection(data, sectionName)
              THEN [d1 EXCEPT ![at] = a.sec] ELSE data]

\* The document after SetKeyValuePair on a parsed key, without the call of
\* SetInlineComment.
InsertedValueUncommented(d1, at, s, found, newInlineComment) ==
    [ok |-> TRUE, data |-> [d1 EXCEPT ![at] = s]]

\* The document after SetKeyValuePair and SetInlineComment on a parsed key, s
\* being the section after SetKeyValuePair: [ok, data].
InsertedValue(d1, at, s, found, newInlineComment) ==
    [ok |-> TRUE,
     data |-> [d1 EXCEPT ![at] = [s EXCEPT !.mKeyValuePairs[found] =
                                    Data_SetInlineComment(@, newInlineComment)]]]

\* The insertion of a parsed key and value into the section: [ok, data]; not ok
\* when std::stol throws inside SetArrayEntry.
InsertParsed(data, sectionName, keyName, v, isArrayKey, arrayIndex, hasArrayIndex) ==
    LET d1 == WithSection(data, sectionName)
        at == GetSection(d1, sectionName)
        newInlineComment == IF v.hasInlineComment THEN v.inlineComment ELSE <<>>
    IN  IF isArrayKey
        THEN InsertedArray(data, sectionName, d1, at,
                 Section_SetArrayEntry(d1[at], keyName, v.value, v.addQuotes, v.hasInlineComment,
                                       newInlineComment, arrayIndex, hasArrayIndex))
        ELSE InsertedValue(d1, at,
                 Section_SetKeyValuePair(d1[at], keyName, v.value, v.addQuotes),
                 FindKey(Section_SetKeyValuePair(d1[at], keyName, v.value,
                                                 v.addQuotes).mKeyValuePairs, Fold(keyName)),
                 newInlineComment)

\* The parser's variables after the insertion of a parsed value returned r.
ValueInserted(after, r) ==
    IF ~r.ok THEN [after EXCEPT !.data = r.data, !.thrown = TRUE]
    ELSE [after EXCEPT !.data = r.data, !.newValue = FALSE, !.hasInlineComment = FALSE,
                       !.inlineComment = <<>>, !.newKey = TRUE]

\* The end of the block "if (newValue == true)", v being what the loop over the
\* value has left.
ValueParsed(st, v) ==
    LET errorMessage == IF v.newValue /\ v.stringValue
                        THEN Append(v.errorMessage, "Value end tag (New line) was not found!")
                        ELSE v.errorMessage
        after == [st EXCEPT !.stringValue = v.stringValue, !.newValue = v.newValue,
                            !.hasInlineComment = v.hasInlineComment,
                            !.inlineComment = v.inlineComment,
                            !.emptyFront = @ \/ v.emptyFront,
                            !.errorMessage = errorMessage]
    IN  IF errorMessage # <<>> THEN after
        ELSE ValueInserted(after,
                 InsertParsed(st.data, st.sectionName, st.keyName, v, st.isArrayKey,
                              st.arrayIndex, st.hasArrayIndex))

\* The block "if (newValue == true)" of the parser.
ParseValue(line, st) ==
    IF ~Delimiter(line).found
    THEN [st EXCEPT !.errorMessage = Append(@, "No = or : sign found!")]
    ELSE ValueParsed(st,
             ValueFrom(line, Delimiter(line).at + 1, CountQuotes(line, 0, 0),
                       [value |-> <<>>, stringValue |-> st.stringValue, newValue |-> st.newValue,
                        errorMessage |-> st.errorMessage, addQuotes |-> FALSE,
                        currentQuoteCharacter |-> 0, hasInlineComment |-> st.hasInlineComment,
                        inlineComment |-> st.inlineComment, emptyFront |-> FALSE]))

-----------------------------------------------------------------------------
(* havINIStream::ParseFile: the loop over the lines, and the whole call *)

\* The parser's local variables before the first line, for a document data.
ParserStart(data) ==
    [data |-> data, errorMessage |-> <<>>, sectionName |-> GlobalName, keyName |-> <<>>,
     inlineComment |-> <<>>, newSection |-> FALSE, newKey |-> TRUE, newValue |-> FALSE,
     hasInlineComment |-> FALSE, stringValue |-> FALSE, arrayIndex |-> <<>>,
     isArrayKey |-> FALSE, hasArrayIndex |-> FALSE,
     thrown |-> FALSE, emptyFront |-> FALSE, printed |-> <<>>]

\* The block "if (newValue == true)" after the block "if (newKey == true)" has
\* left the parser's variables as keyed.
ParseKeyed(line, keyed) == IF keyed.newValue THEN ParseValue(line, keyed) ELSE keyed

\* One iteration of the loop "Parse INI file contents".
ParseLine(rawLine, st) ==
    LET tmpLine == StripFrom(rawLine, 0, FALSE, FALSE, <<>>)
        line == IF tmpLine # <<>> /\ tmpLine[Len(tmpLine)] # LF THEN Append(tmpLine, LF)
                ELSE tmpLine
    IN  IF tmpLine = <<>>
        THEN [st EXCEPT !.data = ParseEmptyLine(st.data, st.sectionName)]
        ELSE IF IsCommentChar(line[1])
        THEN [st EXCEPT !.data = ParseComment(st.data, st.sectionName, line)]
        ELSE IF line[1] = LBRACKET THEN ParseHeader(line, st)
        ELSE ParseKeyed(line, IF st.newKey THEN ParseKey(line, st) ELSE st)

\* The loop "Parse INI file contents": an error message ends it before the next line.
RECURSIVE ParseLines(_, _, _)
ParseLines(buffer, lineIndex, st) ==
    IF lineIndex > Len(buffer) \/ st.thrown THEN st
    ELSE IF st.errorMessage # <<>>
    THEN [st EXCEPT !.printed = st.errorMessage, !.errorMessage = <<>>]
    ELSE ParseLines(buffer, lineIndex + 1, ParseLine(buffer[lineIndex], st))

\* The byte order marks and encodings ParseFile tells apart from the first four bytes.
BOMNone == "None"
BOMUTF8 == "UTF8"
BOMUTF16LE == "UTF16LE"
BOMUTF16BE == "UTF16BE"
BOMUTF32LE == "UTF32LE"
BOMUTF32BE == "UTF32BE"

\* "Check for BOM" with the marks of two bytes looked for before those of four.
DetectBOMShortFirst(bytes) ==
    LET b0 == At(bytes, 0)
        b1 == At(bytes, 1)
        b2 == At(bytes, 2)
        b3 == At(bytes, 3)
    IN  IF b0 = 255 /\ b1 = 254 THEN [bomType |-> BOMUTF16LE, bytesToSkip |-> 2]
        ELSE IF b0 = 254 /\ b1 = 255 THEN [bomType |-> BOMUTF16BE, bytesToSkip |-> 2]
        ELSE IF b0 = 0 /\ b1 = 0 /\ b2 = 254 /\ b3 = 255 THEN [bomType |-> BOMUTF32BE, bytesToSkip |-> 4]
        ELSE IF b0 = 239 /\ b1 = 187 /\ b2 = 191 THEN [bomType |-> BOMUTF8, bytesToSkip |-> 3]
        ELSE [bomType |-> BOMNone, bytesToSkip |-> 0]

\* "Check for BOM": [bomType, bytesToSkip] from the first four bytes of the file.
DetectBOM(bytes) ==
    LET b0 == At(bytes, 0)
        b1 == At(bytes, 1)
        b2 == At(bytes, 2)
        b3 == At(bytes, 3)
    IN  IF b0 = 255 /\ b1 = 254 /\ b2 = 0 /\ b3 = 0 THEN [bomType |-> BOMUTF32LE, bytesToSkip |-> 4]
        ELSE IF b0 = 0 /\ b1 = 0 /\ b2 = 254 /\ b3 = 255 THEN [bomType |-> BOMUTF32BE, bytesToSkip |-> 4]
        ELSE IF b0 = 255 /\ b1 = 254 THEN [bomType |-> BOMUTF16LE, bytesToSkip |-> 2]
        ELSE IF b0 = 254 /\ b1 = 255 THEN [bomType |-> BOMUTF16BE, bytesToSkip |-> 2]
        ELSE IF b0 = 239 /\ b1 = 187 /\ b2 = 191 THEN [bomType |-> BOMUTF8, bytesToSkip |-> 3]
        ELSE IF b0 # 0 /\ b1 = 0 /\ b2 = 0 /\ b3 = 0 THEN [bomType |-> BOMUTF32LE, bytesToSkip |-> 0]
        ELSE IF b0 = 0 /\ b1 = 0 /\ b2 = 0 /\ b3 # 0 THEN [bomType |-> BOMUTF32BE, bytesToSkip |-> 0]
        ELSE IF b0 # 0 /\ b1 = 0 /\ b2 # 0 /\ b3 = 0 THEN [bomType |-> BOMUTF16LE, bytesToSkip |-> 0]
        ELSE IF b0 = 0 /\ b1 # 0 /\ b2 = 0 /\ b3 # 0 THEN [bomType |-> BOMUTF16BE, bytesToSkip |-> 0]
        ELSE [bomType |-> BOMNone, bytesToSkip |-> 0]

\* The number of bytes of a code unit of the encoding.
UnitWidth(bomType) ==
    IF bomType \in {BOMUTF16LE, BOMUTF16BE} THEN 2
    ELSE IF bomType \in {BOMUTF32LE, BOMUTF32BE} THEN 4
    ELSE 1

\* The code unit of width bytes at the 0-based position from, on a machine with
\* the low byte first, after the swap of the bytes for the encodings with the
\* high byte first; -1 stands for the units of four bytes above 0xffffff.
UnitAt(bytes, from, width, bigEndian) ==
    LET b0 == bytes[from + (IF bigEndian THEN width ELSE 1)]
        b1 == bytes[from + (IF bigEndian THEN width - 1 ELSE 2)]
        b2 == bytes[from + (IF bigEndian THEN 2 ELSE 3)]
        b3 == bytes[from + (IF bigEndian THEN 1 ELSE 4)]
    IN  IF width = 2 THEN b0 + 256 * b1
        ELSE IF b3 # 0 THEN -1
        ELSE b0 + 256 * b1 + 65536 * b2

\* The loops with std::fread of a char16_t or char32_t: the units from the
\* 0-based position from on; bytes that do not fill a unit are not read.
RECURSIVE ReadUnits(_, _, _, _)
ReadUnits(bytes, from, width, bigEndian) ==
    IF from + width > Len(bytes) THEN <<>>
    ELSE <<UnitAt(bytes, from, width, bigEndian)>>
         \o ReadUnits(bytes, from + width, width, bigEndian)

\* The UTF-8 bytes std::wstring_convert::to_bytes gives for a code point.
Utf8Bytes(codePoint) == IF codePoint = 0 THEN <<0>> ELSE CodePointToString(codePoint)

\* std::wstring_convert::to_bytes on units of 16 bits (width 2, with surrogate
\* pairs) or of 32 bits: [ok, text], ok FALSE when it throws std::range_error.
RECURSIVE UnitsToBytes(_, _, _, _)
UnitsToBytes(units, i, width, text) ==
    IF i > Len(units) THEN [ok |-> TRUE, text |-> text]
    ELSE IF width = 2 /\ IsHighSurrogate(units[i])
    THEN IF i < Len(units) /\ IsLowSurrogate(units[i + 1])
         THEN UnitsToBytes(units, i + 2, width,
                           text \o Utf8Bytes(65536 + (units[i] - 55296) * 1024
                                             + (units[i + 1] - 56320)))
         ELSE [ok |-> FALSE, text |-> text]
    ELSE IF units[i] < 0 \/ units[i] > 1114111 \/ (width = 2 /\ IsLowSurrogate(units[i]))
    THEN [ok |-> FALSE, text |-> text]
    ELSE UnitsToBytes(units, i + 1, width, text \o Utf8Bytes(units[i]))

\* fileContents: [ok, text].  A file without a mark or in UTF-8 is read byte by
\* byte, after the bytes of the mark; the others unit by unit, after the unit
\* of the mark, and converted to UTF-8.
FileContents(bytes) ==
    LET bom == DetectBOM(bytes)
        width == UnitWidth(bom.bomType)
    IN  IF width = 1
        THEN [ok |-> TRUE, text |-> SubSeq(bytes, bom.bytesToSkip + 1, Len(bytes))]
        ELSE UnitsToBytes(ReadUnits(bytes, bom.bytesToSkip, width,
                                    bom.bomType \in {BOMUTF16BE, BOMUTF32BE}),
                          1, width, <<>>)

\* The end of ParseFile, st being what the loop over the lines has left: an
\* exception of the loop leaves the call; otherwise the pending error message is
\* printed, and the section named last is added to the document when it is missing.
ParseEnd(st) ==
    IF st.thrown
    THEN [ret |-> "throw", data |-> st.data, printed |-> <<>>, emptyFront |-> st.emptyFront]
    ELSE [ret |-> "true",
          data |-> IF HasSection(st.data, st.sectionName) THEN st.data
                   ELSE Append(st.data, NewSection(st.sectionName)),
          printed |-> IF st.errorMessage # <<>> THEN st.errorMessage ELSE st.printed,
          emptyFront |-> st.emptyFront]

\* ParseFile from the loop "Parse INI file contents" on, segmented being what the
\* loop that splits fileContents into lines has left.
ParseSegmented(data, segmented) ==
    IF ~segmented.ok
    THEN [ret |-> "throw", data |-> data, printed |-> <<>>, emptyFront |-> FALSE]
    ELSE ParseEnd(ParseLines(segmented.buffer, 1, ParserStart(data)))

\* ParseFile from the loop "Read INI file contents" on, contents being what the
\* reading and the conversion of the file have left.
ParseDecoded(data, contents) ==
    IF ~contents.ok
    THEN [ret |-> "throw", data |-> data, printed |-> <<>>, emptyFront |-> FALSE]
    ELSE ParseSegmented(data, Segment(contents.text))

\* ParseFile without the two tests of the size of the file.
ParseFileUngated(data, bytes) == ParseDecoded(data, FileContents(bytes))

\* havINIStream::ParseFile on a file that exists:
\* [ret, data, printed, emptyFront] with ret "true", "false" or "throw".
ParseFile(data, bytes) ==
    IF Len(bytes) = 0
    THEN [ret |-> "false", data |-> data, printed |-> <<"INI file is empty!">>,
          emptyFront |-> FALSE]
    ELSE IF Len(bytes) < 6
    THEN [ret |-> "false", data |-> data,
          printed |-> <<"INI file cannot be smaller than 6 bytes!">>, emptyFront |-> FALSE]
    ELSE ParseDecoded(data, FileContents(bytes))

-----------------------------------------------------------------------------
(* havINIStream::ConvertToEscapedString *)

HexDigit(n) == IF n < 10 THEN 48 + n ELSE 87 + n

RECURSIVE HexDigits(_)
HexDigits(n) == IF n < 16 THEN <<HexDigit(n)>> ELSE Append(HexDigits(n \div 16), HexDigit(n % 16))

\* "\\x" << std::hex << std::setw(4) << std::setfill('0') << n
HexEscape(n) ==
    LET digits == HexDigits(n) IN
    <<BACKSLASH, LOWER_X>> \o [i \in 1..(4 - Len(digits)) |-> 48] \o digits

\* The number of bytes the lead byte announces, 0 for a byte that cannot lead.
NumOfBytes(lead) ==
    IF lead < 128 THEN 1
    ELSE IF lead \div 32 = 6 THEN 2
    ELSE IF lead \div 16 = 14 THEN 3
    ELSE IF lead \div 8 = 30 THEN 4
    ELSE 0

\* The bits of the code point the lead byte carries.
LeadBits(lead) ==
    IF lead < 128 THEN lead
    ELSE IF lead \div 32 = 6 THEN lead % 32
    ELSE IF lead \div 16 = 14 THEN lead % 16
    ELSE lead % 8

\* The loop over the continuation bytes: [ok, codePoint]; value[size()] is '\0',
\* which is no continuation byte.
RECURSIVE Continuation(_, _, _, _)
Continuation(value, index, remaining, codePoint) ==
    LET byte == At(value, index) IN
    IF remaining = 0 THEN [ok |-> TRUE, codePoint |-> codePoint]
    ELSE IF byte \div 64 # 2 THEN [ok |-> FALSE, codePoint |-> codePoint]
    ELSE Continuation(value, index + 1, remaining - 1, codePoint * 64 + (byte % 64))

\* The escape of a code point without the split into surrogates.
EscapedCodePointUnsplit(codePoint, writeAsHex, byte) ==
    IF ~writeAsHex THEN <<byte>> ELSE HexEscape(codePoint)

\* What one code point becomes: an escape, or the byte itself.
EscapedCodePoint(codePoint, writeAsHex, byte) ==
    IF ~writeAsHex THEN <<byte>>
    ELSE IF codePoint >= 65536 /\ codePoint <= 1114111
    THEN HexEscape(((codePoint - 65536) \div 1024) + 55296)
         \o HexEscape(((codePoint - 65536) % 1024) + 56320)
    ELSE HexEscape(codePoint)

\* The named escapes of ConvertToEscapedString: the character after the backslash,
\* 0 for a byte without a named escape.
NamedEscape(c) ==
    CASE c = DQUOTE -> DQUOTE
      [] c = BACKSLASH -> BACKSLASH
      [] c = BS -> Ord("b")
      [] c = FF -> Ord("f")
      [] c = LF -> Ord("n")
      [] c = CR -> Ord("r")
      [] c = TAB -> Ord("t")
      [] c = VT -> Ord("v")
      [] OTHER -> 0

\* The loop of ConvertToEscapedString: [ok, text]; not ok when it throws
\* "Invalid UTF-8 sequence!".
RECURSIVE EscapeFrom(_, _, _)
EscapeFrom(value, index, resultValue) ==
    LET c == At(value, index)
        numOfBytes == NumOfBytes(c)
        writeAsHex == IF numOfBytes = 1 THEN c < 31 ELSE TRUE
        rest == Continuation(value, index + 1, numOfBytes - 1, IF writeAsHex THEN LeadBits(c) ELSE 0)
    IN  IF index >= Len(value) THEN [ok |-> TRUE, text |-> resultValue]
        ELSE IF NamedEscape(c) # 0
        THEN EscapeFrom(value, index + 1, resultValue \o <<BACKSLASH, NamedEscape(c)>>)
        ELSE IF numOfBytes = 0 \/ ~rest.ok THEN [ok |-> FALSE, text |-> resultValue]
        ELSE EscapeFrom(value, index + numOfBytes,
                        resultValue \o EscapedCodePoint(rest.codePoint, writeAsHex, c))

ConvertToEscapedString(value) == EscapeFrom(value, 0, <<>>)

-----------------------------------------------------------------------------
(* havINIStream::WriteFile, with bomType None or UTF8 *)

\* A string under construction is [ok, text]; it stops being ok when
\* ConvertToEscapedString throws while it is built.
Lit(text) == [ok |-> TRUE, text |-> text]

RECURSIVE Cat(_)
Cat(parts) ==
    IF parts = <<>> THEN Lit(<<>>)
    ELSE LET rest == Cat(Tail(parts)) IN
         IF ~Head(parts).ok THEN [ok |-> FALSE, text |-> <<>>]
         ELSE [ok |-> rest.ok, text |-> IF rest.ok THEN Head(parts).text \o rest.text ELSE <<>>]

When(cond, text) == Lit(IF cond THEN text ELSE <<>>)

\* The inline comment appended to a section header or to an entry.
InlineCommentText(x, formatted) ==
    IF ~x.mInlineComment.has THEN Lit(<<>>)
    ELSE Cat(<<When(formatted, <<SPACE>>), Lit(<<mCommentCharacter, SPACE>>),
               ConvertToEscapedString(x.mInlineComment.val)>>)

\* The header line of a section; written says whether the file already holds
\* bytes after its byte order mark.
HeaderText(sec, first, written, formatted) ==
    Cat(<<When(~first /\ written, mNewline), Lit(<<LBRACKET>>),
          ConvertToEscapedString(sec.mSectionName), Lit(<<RBRACKET>>),
          InlineCommentText(sec, formatted),
          When(formatted /\ sec.mKeyValuePairs = <<>>, mNewline)>>)

\* The value of a Value entry or of an array element, quoted when it asks for it.
ValueText(x) ==
    Cat(<<When(x.mAddQuotes, <<mValueQuoteCharacter>>), ConvertToEscapedString(x.mValue),
          When(x.mAddQuotes, <<mValueQuoteCharacter>>)>>)

\* The delimiter between key and value.
DelimiterText(formatted) ==
    Cat(<<When(formatted, <<SPACE>>), Lit(<<mKeyValuePairDelimiter>>), When(formatted, <<SPACE>>)>>)

\* The line of one element of an Array entry.
ArrayElementText(entry, element, newline, lastOfAll, formatted) ==
    Cat(<<Lit(newline), ConvertToEscapedString(entry.mKey),
          IF entry.mHasArrayIndex
          THEN Cat(<<Lit(<<LBRACKET>>), ConvertToEscapedString(element.mKey), Lit(<<RBRACKET>>)>>)
          ELSE Lit(<<LBRACKET, RBRACKET>>),
          DelimiterText(formatted), ValueText(element), InlineCommentText(element, formatted),
          When(formatted /\ lastOfAll, mNewline)>>)

\* The line of an Empty, Comment or Value entry.
EntryText(entry, newline, lastEntry, formatted) ==
    Cat(<<Lit(newline),
          CASE entry.mType = TypeEmpty -> Lit(<<>>)
            [] entry.mType = TypeComment ->
                 Cat(<<Lit(<<mCommentCharacter, SPACE>>), ConvertToEscapedString(entry.mValue)>>)
            [] OTHER ->
                 Cat(<<ConvertToEscapedString(entry.mKey), DelimiterText(formatted),
                       ValueText(entry)>>),
          InlineCommentText(entry, formatted),
          When(formatted /\ lastEntry /\ entry.mType # TypeEmpty, mNewline)>>)

\* The strings WriteFile hands to WriteStringToFile for one entry, in order.
EntryChunks(entry, newline, lastEntry, formatted) ==
    IF entry.mType = TypeArray
    THEN [i \in 1..Len(entry.mArray) |->
             ArrayElementText(entry, entry.mArray[i], newline,
                              lastEntry /\ i = Len(entry.mArray), formatted)]
    ELSE <<EntryText(entry, newline, lastEntry, formatted)>>

\* The strings for the entries of a section from entry i on; headed says whether
\* the section's header was written.
RECURSIVE SectionChunks(_, _, _, _)
SectionChunks(pairs, i, headed, formatted) ==
    IF i > Len(pairs) THEN <<>>
    ELSE EntryChunks(pairs[i], IF ~headed /\ i = 1 THEN <<>> ELSE mNewline,
                     i = Len(pairs), formatted)
         \o SectionChunks(pairs, i + 1, headed, formatted)

\* The bytes of the chunks up to the first one that throws: [ok, text].
RECURSIVE WriteChunks(_, _)
WriteChunks(chunks, text) ==
    IF chunks = <<>> THEN [ok |-> TRUE, text |-> text]
    ELSE IF ~Head(chunks).ok THEN [ok |-> FALSE, text |-> text]
    ELSE WriteChunks(Tail(chunks), text \o Head(chunks).text)

\* The loop "Write INI file contents" from section i on: [ok, text] with the
\* bytes written after the byte order mark.
RECURSIVE WriteSections(_, _, _, _)
WriteSections(data, i, formatted, text) ==
    LET sec == data[i]
        headed == sec.mSectionName # HI_Global /\ sec.mSectionName # hi_global
        header == IF headed THEN <<HeaderText(sec, i = 1, text # <<>>, formatted)>> ELSE <<>>
        w == WriteChunks(header \o SectionChunks(sec.mKeyValuePairs, 1, headed, formatted), text)
    IN  IF i > Len(data) THEN [ok |-> TRUE, text |-> text]
        ELSE IF ~w.ok THEN w
        ELSE WriteSections(data, i + 1, formatted, w.text)

\* The byte order mark WriteFile writes first.
BOMBytes(bomType) ==
    CASE bomType = BOMUTF8    -> <<239, 187, 191>>
      [] bomType = BOMUTF16LE -> <<255, 254>>
      [] bomType = BOMUTF16BE -> <<254, 255>>
      [] bomType = BOMUTF32LE -> <<255, 254, 0, 0>>
      [] bomType = BOMUTF32BE -> <<0, 0, 254, 255>>
      [] OTHER                -> <<>>

\* havINIStream::WriteStringToFile on the text WriteFile writes, which is ASCII
\* (ConvertToEscapedString leaves no other byte): a byte as it is, or as a unit
\* of 2 or 4 bytes, low byte first unless the encoding has the high byte first.
RECURSIVE WriteStringToFile(_, _)
WriteStringToFile(value, bomType) ==
    LET c == Head(value)
        unit == CASE bomType = BOMUTF16LE -> <<c, 0>>
                  [] bomType = BOMUTF16BE -> <<0, c>>
                  [] bomType = BOMUTF32LE -> <<c, 0, 0, 0>>
                  [] bomType = BOMUTF32BE -> <<0, 0, 0, c>>
                  [] OTHER                -> <<c>>
    IN  IF value = <<>> THEN <<>> ELSE unit \o WriteStringToFile(Tail(value), bomType)

\* havINIStream::WriteFile on a file that can be opened: [ret, bytes, bomType]
\* with ret "true" or "throw"; the bytes written before the throw stay in the file.
WriteFile(data, formatted, bomType) ==
    LET w == WriteSections(data, 1, formatted, <<>>) IN
    [ret |-> IF w.ok THEN "true" ELSE "throw",
     bytes |-> BOMBytes(bomType) \o WriteStringToFile(w.text, bomType),
     bomType |-> bomType]

-----------------------------------------------------------------------------
(* Bounds and inputs *)

MaxSize == 3
MaxCount == 2
MaxArray == 3

\* The number of sections and entries in the sections from i on.
RECURSIVE DocumentSize(_, _)
DocumentSize(data, i) ==
    IF i > Len(data) THEN 0
    ELSE 1 + Len(data[i].mKeyValuePairs) + DocumentSize(data, i + 1)

\* The documents the model explores: the first section and at most MaxSize more
\* sections and entries, with counters up to MaxCount and arrays of at most
\* MaxArray elements.
Bounded(data) ==
    /\ DocumentSize(data, 1) <= MaxSize + 1
    /\ \A i \in 1..Len(data) :
          /\ data[i].mCommentLineCount <= MaxCount
          /\ data[i].mEmptyLineCount <= MaxCount
          /\ \A j \in 1..Len(data[i].mKeyValuePairs) :
                Len(data[i].mKeyValuePairs[j].mArray) <= MaxArray

NameS == Str(<<"s">>)
NameUpperS == Str(<<"S">>)
KeyK == Str(<<"k">>)
KeyUpperK == Str(<<"K">>)
KeyA == Str(<<"a">>)
Text1 == Str(<<"1">>)
Text2 == Str(<<"2">>)
Text5 == Str(<<"5">>)
TextC == Str(<<"c">>)
TextX == Str(<<"x">>)

\* Section names a caller passes; the empty name stands for the global section
\* in SetComment and SetEmptyLine.
SectionNames == {GlobalName, NameS, NameUpperS}
CommentSectionNames == {<<>>, NameS}

\* Key names a caller passes: a key in both cases, and the key the next comment
\* of a fresh section would get.
KeyNames == {KeyK, KeyUpperK, CommentKeyStart \o Text1}

Anchors == {NullOpt, Some(KeyK)}

\* The record of a call: its name and its result and, for the calls that insert
\* (SetValue, SetComment, SetEmptyLine, SetArrayEntry), the section, key and
\* position they were given and one more argument (the value of SetValue, the
\* array index of SetArrayEntry); for ParseFile, the bytes of the file as the
\* argument, and what the call printed.
Call(op, sectionName, keyName, position, ret) ==
    [op |-> op, sectionName |-> sectionName, keyName |-> keyName, position |-> position,
     arg |-> NullOpt, ret |-> ret, printed |-> <<>>]

NoCall == Call("new", <<>>, NullOpt, "", "true")

NoFile ==
    [written |-> FALSE, bytes |-> <<>>, formatted |-> FALSE, ret |-> "true", bomType |-> BOMNone]
NoOrigin == [loaded |-> FALSE, bytes |-> <<>>, formatted |-> FALSE, ret |-> "true"]
NoCodec == [pc |-> "idle", s |-> <<>>, decoded |-> Lit(<<>>), encoded |-> Lit(<<>>)]

\* The state after havINIStream's constructor, for either build.
Init ==
    /\ caseSensitive \in BOOLEAN
    /\ mData = NewStream
    /\ mNewline = <<CR, LF>>
    /\ mCommentCharacter = SEMICOLON
    /\ mValueQuoteCharacter = DQUOTE
    /\ mKeyValuePairDelimiter = EQUALS
    /\ file = NoFile
    /\ origin = NoOrigin
    /\ last = NoCall
    /\ codec = NoCodec

\* A call on the document: what it changes and what it leaves alone.  file is
\* the output of WriteFile for the document and the style as they are, and
\* origin the file the document was loaded from, as long as nothing has been
\* called on the document since.
DocumentCall(data, call) ==
    /\ Bounded(data)
    /\ mData' = data
    /\ last' = call
    /\ file' = NoFile
    /\ origin' = NoOrigin
    /\ UNCHANGED <<caseSensitive, style, codec>>

-----------------------------------------------------------------------------
(* The calls on the document *)

AddSection(sectionName) ==
    LET r == Stream_AddSection(mData, sectionName) IN
    DocumentCall(r.data, Call("AddSection", <<>>, NullOpt, "", r.ret))

\* stream[sectionName]
Index(sectionName) ==
    DocumentCall(Stream_Index(mData, sectionName),
                 Call("operator[]", <<>>, NullOpt, "", "true"))

SetValue(sectionName, keyName, value) ==
    LET r == Stream_SetValue(mData, sectionName, keyName, value, FALSE) IN
    DocumentCall(r.data, [Call("SetValue", sectionName, Some(keyName), "", r.ret)
                             EXCEPT !.arg = Some(value)])

SetComment(sectionName, position, keyName) ==
    LET r == Stream_SetComment(mData, sectionName, TextC, position, keyName) IN
    DocumentCall(r.data, Call("SetComment", sectionName, keyName, position, r.ret))

SetEmptyLine(sectionName, position, keyName) ==
    LET r == Stream_SetEmptyLine(mData, sectionName, position, keyName) IN
    DocumentCall(r.data, Call("SetEmptyLine", sectionName, keyName, position, r.ret))

RemoveKey(sectionName, keyName) ==
    LET r == Stream_RemoveKey(mData, sectionName, keyName) IN
    DocumentCall(r.data, Call("RemoveKey", <<>>, NullOpt, "", r.ret))

RenameKey(sectionName, oldKeyName, newKeyName) ==
    LET r == Stream_RenameKey(mData, sectionName, oldKeyName, newKeyName) IN
    DocumentCall(r.data, Call("RenameKey", <<>>, NullOpt, "", r.ret))

RemoveSection(sectionName) ==
    LET r == Stream_RemoveSection(mData, sectionName) IN
    DocumentCall(r.data, Call("RemoveSection", <<>>, NullOpt, "", r.ret))

RenameSection(oldSectionName, newSectionName) ==
    LET r == Stream_RenameSection(mData, oldSectionName, newSectionName) IN
    DocumentCall(r.data, Call("RenameSection", <<>>, NullOpt, "", r.ret))

ClearSection(sectionName) ==
    LET r == Stream_ClearSection(mData, sectionName) IN
    DocumentCall(r.data, Call("ClearSection", <<>>, NullOpt, "", r.ret))

\* stream[sectionName].SetArrayEntry(key, value, false, false, "", arrayIndex, hasArrayIndex)
SetArrayEntry(sectionName, key, arrayIndex) ==
    LET r == Stream_SetArrayEntry(mData, sectionName, key, Text1, FALSE, FALSE, <<>>,
                                  arrayIndex.val, arrayIndex.has)
    IN  DocumentCall(r.data, [Call("SetArrayEntry", sectionName, Some(key), "", r.ret)
                                 EXCEPT !.arg = arrayIndex])

\* Lines joined by LF, as the bytes of a file.
RECURSIVE JoinLines(_)
JoinLines(lines) ==
    IF lines = <<>> THEN <<>>
    ELSE IF Len(lines) = 1 THEN Head(lines)
    ELSE Head(lines) \o <<LF>> \o JoinLines(Tail(lines))

\* The return of ParseFile with r.  inlineComment.front() on an empty string is
\* undefined: the call goes on, or the process is stopped.
ParseFileReturn(bytes, r) ==
    \E stopped \in (IF r.emptyFront THEN BOOLEAN ELSE {FALSE}) :
        DocumentCall(r.data, [Call("ParseFile", <<>>, NullOpt, "",
                                   IF stopped THEN "abort" ELSE r.ret)
                              EXCEPT !.arg = Some(bytes), !.printed = r.printed])

\* stream.ParseFile(fileName) on a file with these bytes.
ParseFileCall(bytes) ==
    ParseFileReturn(bytes, ParseFile(mData, bytes))

-----------------------------------------------------------------------------
(* Spec: the sections of a document *)

\* The files ParseFile is given on top of a document: a section with a key; a
\* header with an inline comment, in upper case, and a key; a header without its
\* end; a key with a quoted value without its end.
SectionTexts ==
    { JoinLines(<<Str(<<"[","s","]">>), Str(<<"k","=","1">>)>>),
      JoinLines(<<Str(<<"[","S","]"," ",";","c">>), Str(<<"k","=","1">>)>>),
      JoinLines(<<Str(<<"[","s","]">>), Str(<<"[","S">>)>>),
      JoinLines(<<Str(<<"k","=","1">>), Str(<<"[","s","]">>), Str(<<"k","=","\"","1">>)>>) }

Next ==
    \/ \E sectionName \in SectionNames : AddSection(sectionName)
    \/ \E sectionName \in SectionNames : Index(sectionName)
    \/ \E sectionName \in SectionNames : SetValue(sectionName, KeyK, Text1)
    \/ \E sectionName \in CommentSectionNames : SetComment(sectionName, PosEnd, NullOpt)
    \/ \E sectionName \in SectionNames : RemoveSection(sectionName)
    \/ \E oldSectionName \in SectionNames, newSectionName \in SectionNames :
          RenameSection(oldSectionName, newSectionName)
    \/ \E sectionName \in SectionNames : ClearSection(sectionName)
    \/ \E bytes \in SectionTexts : ParseFileCall(bytes)

Spec == Init /\ [][Next]_vars

\* C7: the document contains the reserved global section, from construction on
\* and after every call of AddSection, RemoveSection, RenameSection,
\* ClearSection, SetValue, SetComment and ParseFile.
GlobalSectionPresent == HasSection(mData, GlobalName)

\* Two sections of the document, at different positions, with the same name
\* under the case policy of the build.
SameSectionName(i, j) == i # j /\ Fold(mData[i].mSectionName) = Fold(mData[j].mSectionName)

\* C8: no two sections of the document have the same name under the active
\* case policy, after every call of AddSection, operator[], SetValue,
\* RenameSection, RemoveSection and ParseFile.
SectionNamesUnique == \A i \in 1..Len(mData), j \in 1..Len(mData) : ~SameSectionName(i, j)

\* C8's case: a call was given the name of a section the document has (AddSection
\* refuses it, RenameSection refuses it as the new name, ParseFile reads its
\* header again) and the document has several sections.
SectionNamesUniqueWitness ==
    /\ Len(mData) >= 3
    /\ \/ last.op \in {"AddSection", "RenameSection"} /\ last.ret = "false"
       \/ last.op = "ParseFile" /\ last.ret = "true"

-----------------------------------------------------------------------------
(* SpecEntries: the entries of the global section *)

\* The files ParseFile is given on top of a document: a key that reads like a
\* comment's key, then a blank line and a comment; a key in both cases, then an
\* element of an array under each of the two.
EntryTexts ==
    { JoinLines(<<CommentKeyStart \o Str(<<"1","=","1">>), <<>>, Str(<<";","c">>)>>),
      JoinLines(<<Str(<<"k","=","1">>), Str(<<"K","=","1">>),
                  Str(<<"k","[","5","]","=","1">>), Str(<<"K","[","5","]","=","1">>)>>) }

NextEntries ==
    \/ \E keyName \in KeyNames : SetValue(GlobalName, keyName, Text1)
    \/ SetComment(<<>>, PosEnd, NullOpt)
    \/ SetEmptyLine(<<>>, PosEnd, NullOpt)
    \/ \E keyName \in KeyNames : RemoveKey(GlobalName, keyName)
    \/ \E oldKeyName \in KeyNames, newKeyName \in KeyNames :
          RenameKey(GlobalName, oldKeyName, newKeyName)
    \/ SetArrayEntry(GlobalName, KeyK, Some(Text5))
    \/ \E bytes \in EntryTexts : ParseFileCall(bytes)

SpecEntries == Init /\ [][NextEntries]_vars

\* The entries of the global section, in iteration order.
GlobalEntries(data) == data[GetSection(data, GlobalName)].mKeyValuePairs

\* C9: no two entries of the same section have the same key under the active
\* case policy, after every parse and every call of SetValue, SetArrayEntry,
\* SetComment, SetEmptyLine, RenameKey and RemoveKey.
KeysUnique ==
    \A s \in 1..Len(mData) :
        \A i \in 1..Len(mData[s].mKeyValuePairs), j \in 1..Len(mData[s].mKeyValuePairs) :
            i # j => Fold(mData[s].mKeyValuePairs[i].mKey) # Fold(mData[s].mKeyValuePairs[j].mKey)

\* C9's case: SetValue was given, in other letters, the key of an entry the
\* section already had among several, in the build that ignores case.
KeysUniqueWitness ==
    /\ ~caseSensitive
    /\ last.op = "SetValue" /\ last.keyName = Some(KeyUpperK)
    /\ Len(GlobalEntries(mData)) >= 3
    /\ FindKey(GlobalEntries(mData), KeyK) > 1

\* No entry of the global section that is not an Array has elements.
ElementsInArraysOnly ==
    \A i \in 1..Len(GlobalEntries(mData)) :
        GlobalEntries(mData)[i].mType # TypeArray => GlobalEntries(mData)[i].mArray = <<>>

\* The entries of the global section that a step leaves under their key keep
\* their kind.
KindKept ==
    (HasSection(mData, GlobalName) /\ HasSection(mData', GlobalName))
    => \A i \in 1..Len(GlobalEntries(mData)), j \in 1..Len(GlobalEntries(mData')) :
          GlobalEntries(mData)[i].mKey = GlobalEntries(mData')[j].mKey
          => GlobalEntries(mData)[i].mType = GlobalEntries(mData')[j].mType

\* C29: after parsed lines and calls of SetValue and SetArrayEntry, in any
\* order and for the same key, an entry of kind Value, Comment or Empty has no
\* elements, and no step changes the kind of an entry.
OnlyArraysHoldElements == []ElementsInArraysOnly /\ [][KindKept]_vars

\* The second half: no step changes the kind of an entry.
KindNeverChanges == [][KindKept]_vars

-----------------------------------------------------------------------------
(* SpecPositions: comments and blank lines among the entries of the global section *)

\* The files ParseFile is given on top of a document: a key that reads like a
\* comment's key, then a comment; a blank line and a key.
PositionTexts ==
    { JoinLines(<<CommentKeyStart \o Str(<<"1","=","1">>), Str(<<";","c">>)>>),
      JoinLines(<<<<>>, Str(<<"k","=","1","1","1">>)>>) }

NextPositions ==
    \/ \E keyName \in KeyNames : SetValue(GlobalName, keyName, Text1)
    \/ \E position \in Positions, keyName \in Anchors : SetComment(<<>>, position, keyName)
    \/ \E position \in Positions, keyName \in Anchors : SetEmptyLine(<<>>, position, keyName)
    \/ RenameKey(GlobalName, KeyK, EmptyLineKeyStart \o Text1)
    \/ \E bytes \in PositionTexts : ParseFileCall(bytes)

SpecPositions == Init /\ [][NextPositions]_vars

\* The type of the entry SetComment and SetEmptyLine insert.
InsertedType(op) == IF op = "SetComment" THEN TypeComment ELSE TypeEmpty

\* after is before with one entry of type type more, at the 1-based position at.
InsertedAt(before, after, at, type) ==
    /\ Len(after) = Len(before) + 1
    /\ at \in 1..Len(after)
    /\ after[at].mType = type
    /\ EraseAt(after, at) = before

ClaimedPosition(before, position, otherKeyName) ==
    CASE position = PosStart -> 1
      [] position = PosEnd   -> Len(before) + 1
      [] position = PosAbove -> FindOptKey(before, FoldOpt(otherKeyName))
      [] OTHER               -> FindOptKey(before, FoldOpt(otherKeyName)) + 1

\* A call of SetComment or SetEmptyLine the claim covers: with Above or Below, the
\* anchor is an entry of the section.
PositionedCall(before, call) ==
    /\ call.op \in {"SetComment", "SetEmptyLine"}
    /\ call.position \in {PosAbove, PosBelow} => FindOptKey(before, FoldOpt(call.keyName)) # 0

SyntheticKeyTaken(data, op) ==
    LET sec == data[GetSection(data, GlobalName)] IN
    FindKey(sec.mKeyValuePairs,
            IF op = "SetComment"
            THEN CommentKeyStart \o to_string(sec.mCommentLineCount + 1)
            ELSE EmptyLineKeyStart \o to_string(sec.mEmptyLineCount + 1)) # 0

\* The positions the code gives the new entry are those of C6 in every call in
\* which the synthetic key is free.
PositionalInsertWhenKeyFree ==
    [][ (PositionedCall(GlobalEntries(mData), last') /\ ~SyntheticKeyTaken(mData, last'.op))
        => InsertedAt(GlobalEntries(mData), GlobalEntries(mData'),
                      ClaimedPosition(GlobalEntries(mData), last'.position, last'.keyName),
                      InsertedType(last'.op)) ]_vars

\* A call of SetComment or SetEmptyLine with Above or Below whose anchor is not
\* an entry of the section, or is not given.
AnchorMissed(before, call) ==
    /\ call.op \in {"SetComment", "SetEmptyLine"}
    /\ call.position \in {PosAbove, PosBelow}
    /\ FindOptKey(before, FoldOpt(call.keyName)) = 0

\* C11: SetComment and SetEmptyLine with Above or Below whose anchor key is not
\* an entry of the section, or is not given, return false without raising an
\* exception and leave the document as it was, the counters of the comments
\* and blank lines of the section included.
LookupMissReturnsFalse ==
    [][ AnchorMissed(GlobalEntries(mData), last')
        => (last'.ret = "false" /\ mData' = mData) ]_vars

-----------------------------------------------------------------------------
(* SpecRename: renaming sections and the keys of their entries *)

\* Key names a caller passes to RenameKey: a key in both cases and another key.
RenameKeyNames == {KeyK, KeyUpperK, KeyA}

NextRename ==
    \/ \E sectionName \in {GlobalName, NameS}, keyName \in {KeyK, KeyA} :
          SetValue(sectionName, keyName, Text1)
    \/ SetComment(<<>>, PosEnd, NullOpt)
    \/ \E oldSectionName \in SectionNames, newSectionName \in SectionNames :
          RenameSection(oldSectionName, newSectionName)
    \/ \E oldKeyName \in RenameKeyNames, newKeyName \in RenameKeyNames :
          RenameKey(GlobalName, oldKeyName, newKeyName)

SpecRename == Init /\ [][NextRename]_vars

\* The positions of the sections of data named name under the case policy.
SectionsNamed(data, name) ==
    {i \in 1..Len(data) : Fold(data[i].mSectionName) = Fold(name)}

\* The positions of the entries of pairs with the key key under the case policy.
EntriesKeyed(pairs, key) ==
    {i \in 1..Len(pairs) : Fold(pairs[i].mKey) = Fold(key)}

\* RenameSection(old, new) on data with the result r is as C12 says.
SectionRenamedOrRefused(data, old, new, r) ==
    /\ SectionsNamed(data, new) # {} => (r.ret = "false" /\ r.data = data)
    /\ (SectionsNamed(data, new) = {} /\ SectionsNamed(data, old) # {})
       => /\ r.ret = "true"
          /\ Len(r.data) = Len(data)
          /\ \A i \in 1..Len(data) :
                IF i \in SectionsNamed(data, old)
                THEN r.data[i] = [data[i] EXCEPT !.mSectionName = Fold(new)]
                ELSE r.data[i] = data[i]

\* RenameKey(sectionName, old, new) on data with the result r is as C12 says.
KeyRenamedOrRefused(data, sectionName, old, new, r) ==
    \A s \in SectionsNamed(data, sectionName) :
        LET pairs == data[s].mKeyValuePairs IN
        /\ EntriesKeyed(pairs, new) # {} => (r.ret = "false" /\ r.data = data)
        /\ (EntriesKeyed(pairs, new) = {} /\ EntriesKeyed(pairs, old) # {})
           => /\ r.ret = "true"
              /\ Len(r.data) = Len(data)
              /\ \A i \in 1..Len(data) : i # s => r.data[i] = data[i]
              /\ [r.data[s] EXCEPT !.mKeyValuePairs = pairs] = data[s]
              /\ Len(r.data[s].mKeyValuePairs) = Len(pairs)
              /\ \A i \in 1..Len(pairs) :
                    IF i \in EntriesKeyed(pairs, old)
                    THEN r.data[s].mKeyValuePairs[i] = [pairs[i] EXCEPT !.mKey = Fold(new)]
                    ELSE r.data[s].mKeyValuePairs[i] = pairs[i]

\* C12: in every document the calls reach, RenameSection to the name of a
\* section the document has and RenameKey to the key of an entry the section
\* has return false and change nothing; with a free new name and an existing
\* old one they return true and change the name alone, the section or entry
\* keeping its position and its contents.
RenameRefusedOrApplied ==
    /\ \A old \in SectionNames, new \in SectionNames :
          SectionRenamedOrRefused(mData, old, new, Stream_RenameSection(mData, old, new))
    /\ \A sectionName \in SectionNames, old \in RenameKeyNames, new \in RenameKeyNames :
          KeyRenamedOrRefused(mData, sectionName, old, new,
                              Stream_RenameKey(mData, sectionName, old, new))

\* C12's case: the global section has the keys k and a, so that every key
\* RenameKey is given as the new one is taken, and RenameKey has refused.
RenameRefusedWitness ==
    /\ ~caseSensitive
    /\ last.op = "RenameKey" /\ last.ret = "false"
    /\ HasSection(mData, GlobalName)
    /\ EntriesKeyed(GlobalEntries(mData), KeyK) # {}
    /\ EntriesKeyed(GlobalEntries(mData), KeyA) # {}

-----------------------------------------------------------------------------
(* SpecValues: values written with SetValue and read with GetValue *)

\* Section names a caller passes to GetValue, the empty one too.
ValueSectionNames == {<<>>, GlobalName, NameS, NameUpperS}

\* The default values a caller passes to GetValue.
DefaultValues == {<<>>, Text1, TextX}

NextValues ==
    \/ \E sectionName \in {GlobalName, NameUpperS}, keyName \in KeyNames, value \in {Text1, Text2} :
          SetValue(sectionName, keyName, value)
    \/ SetComment(<<>>, PosEnd, NullOpt)
    \/ SetArrayEntry(GlobalName, KeyK, Some(Text5))
    \/ RemoveKey(GlobalName, KeyK)
    \/ RemoveSection(NameUpperS)

SpecValues == Init /\ [][NextValues]_vars

\* data has no section sectionName with an entry keyName, under the case policy.
NoSuchEntry(data, sectionName, keyName) ==
    \A s \in SectionsNamed(data, sectionName) :
        EntriesKeyed(data[s].mKeyValuePairs, keyName) = {}

\* C13: SetValue returns true, whether the section and the key existed or not,
\* and right after it GetValue of the same section and key returns the value
\* written, for every default; GetValue returns the default it is given
\* whenever the document has no such section or the section no such key.
SetGetContract ==
    /\ last.op = "SetValue"
       => /\ last.ret = "true"
          /\ \A d \in DefaultValues :
                Stream_GetValue(mData, last.sectionName, last.keyName.val, d) = last.arg.val
    /\ \A sectionName \in ValueSectionNames, keyName \in KeyNames, d \in DefaultValues :
          NoSuchEntry(mData, sectionName, keyName)
          => Stream_GetValue(mData, sectionName, keyName, d) = d

\* C13's case: SetValue has written the value 2 with a key in upper case into a
\* section other than the first one, which has two entries, in the build that
\* ignores case, while another section lacks that key.
SetGetWitness ==
    /\ ~caseSensitive
    /\ last.op = "SetValue" /\ last.keyName.val = KeyUpperK /\ last.arg.val = Text2
    /\ \E s \in SectionsNamed(mData, last.sectionName) :
          s > 1 /\ Len(mData[s].mKeyValuePairs) = 2
    /\ NoSuchEntry(mData, GlobalName, KeyK)

-----------------------------------------------------------------------------
(* SpecArray: the elements of an array of the global section *)

\* The array indexes a caller passes: none, a number, a word.
ArrayIndexes == {NullOpt, Some(Text5), Some(TextX)}

\* The files ParseFile is given on top of a document: three elements without an
\* index; an element with the index 5, then one without; an element with a word
\* as its index, then one without.
ArrayTexts ==
    { JoinLines(<<Str(<<"a","[","]","=","1">>), Str(<<"a","[","]","=","1">>),
                  Str(<<"a","[","]","=","1">>)>>),
      JoinLines(<<Str(<<"a","[","5","]","=","1">>), Str(<<"a","[","]","=","1">>)>>),
      JoinLines(<<Str(<<"a","[","x","]","=","1">>), Str(<<"a","[","]","=","1">>)>>) }

NextArray ==
    \/ \E key \in {KeyA, KeyK}, arrayIndex \in ArrayIndexes :
          SetArrayEntry(GlobalName, key, arrayIndex)
    \/ \E keyName \in {KeyA, KeyK} : RemoveKey(GlobalName, keyName)
    \/ \E bytes \in ArrayTexts : ParseFileCall(bytes)

SpecArray == Init /\ [][NextArray]_vars

\* The elements of the array with this key in the global section; none when the
\* section has no entry with the key.
ArrayOf(data, key) ==
    LET at == FindKey(GlobalEntries(data), Fold(key)) IN
    IF at = 0 THEN <<>> ELSE GlobalEntries(data)[at].mArray

\* The sub-keys of the elements of an array, in order.
SubKeys(array) == [i \in 1..Len(array) |-> array[i].mKey]

\* A sub-key that is a number.
IsNumeric(key) == key # <<>> /\ \A i \in 1..Len(key) : IsDigit(key[i])

NumericSubKeys(array) ==
    { DigitsValue(array[i].mKey, 0) : i \in { j \in 1..Len(array) : IsNumeric(array[j].mKey) } }

\* The largest numeric sub-key + 1, or 0 for an array without a numeric sub-key.
NextSubKey(array) ==
    IF NumericSubKeys(array) = {} THEN 0
    ELSE 1 + CHOOSE n \in NumericSubKeys(array) : \A m \in NumericSubKeys(array) : m <= n

\* The array of the key SetArrayEntry was called with has one element more, the
\* last, whose sub-key is the largest numeric sub-key + 1.
AutoIndexed(before, after, call) ==
    /\ call.ret = "true"
    /\ SubKeys(ArrayOf(after, call.keyName.val)) =
          Append(SubKeys(ArrayOf(before, call.keyName.val)),
                 Decimal(NextSubKey(ArrayOf(before, call.keyName.val))))

\* C4: an array element added without an explicit index gets the sub-key
\* (largest existing numeric sub-key + 1), or 0 in an empty array: three such
\* elements in a new array get 0, 1, 2, and one after the index 5 gets 6.
ArrayAutoIndex ==
    [][ (last'.op = "SetArrayEntry" /\ ~last'.arg.has) => AutoIndexed(mData, mData', last') ]_vars

\* The rule of C4 holds in every call on an array whose sub-keys are all numbers.
ArrayAutoIndexWhenNumeric ==
    [][ (/\ last'.op = "SetArrayEntry" /\ ~last'.arg.has
         /\ \A i \in 1..Len(ArrayOf(mData, last'.keyName.val)) :
               IsNumeric(ArrayOf(mData, last'.keyName.val)[i].mKey))
        => AutoIndexed(mData, mData', last') ]_vars

-----------------------------------------------------------------------------
(* SpecCase: one section and one key, written in several letter cases *)

NameSec == Str(<<"s","e","c">>)
KeyKey == Str(<<"k","e","y">>)

\* The section and the key as callers write them.
CaseSectionNames == {NameSec, Str(<<"S","e","c">>), Str(<<"S","E","C">>)}
CaseKeyNames == {KeyKey, Str(<<"K","E","Y">>)}
CaseValues == {Text1, Text2}

\* The files ParseFile is given: a header and lines of the key, in several cases.
CaseTexts ==
    { JoinLines(<<Str(<<"[","S","e","c","]">>), Str(<<"k","e","y","=","1">>),
                  Str(<<"K","E","Y","=","2">>)>>),
      JoinLines(<<Str(<<"[","S","E","C","]">>), Str(<<"K","e","y","=","1">>)>>),
      JoinLines(<<Str(<<"[","s","e","c","]">>), Str(<<"K","E","Y","=","2">>),
                  Str(<<"k","e","y","=","1">>)>>) }

NextCase ==
    \/ \E sectionName \in CaseSectionNames, keyName \in CaseKeyNames, value \in CaseValues :
          SetValue(sectionName, keyName, value)
    \/ \E sectionName \in CaseSectionNames : AddSection(sectionName)
    \/ \E sectionName \in CaseSectionNames, keyName \in CaseKeyNames :
          RemoveKey(sectionName, keyName)
    \/ \E bytes \in CaseTexts : ParseFileCall(bytes)

SpecCase == Init /\ [][NextCase]_vars

\* The value written last by a call: the value SetValue was given, or the value
\* of the last line of the file ParseFile has read.
LastWritten(call) ==
    IF call.op = "SetValue" THEN call.arg.val ELSE <<call.arg.val[Len(call.arg.val)]>>

\* C5: in the build that ignores case, after parsed lines and SetValue calls
\* whose section names and keys differ in letter case only, the document has
\* one section besides the global one, with the name in lower case, and in it
\* one entry for the key, whose value is the one written last.
CasePolicy ==
    (~caseSensitive /\ last.op \in {"SetValue", "ParseFile"})
    => /\ Len(mData) = 2
       /\ mData[2].mSectionName = NameSec
       /\ Len(mData[2].mKeyValuePairs) = 1
       /\ mData[2].mKeyValuePairs[1].mKey = KeyKey
       /\ mData[2].mKeyValuePairs[1].mValue = LastWritten(last)

\* C5's case: the lines [Sec], key=1, KEY=2 have been parsed in the build that
\* ignores case, and the value of the key is 2.
CasePolicyWitness ==
    /\ ~caseSensitive
    /\ last.op = "ParseFile" /\ last.ret = "true"
    /\ last.arg = Some(JoinLines(<<Str(<<"[","S","e","c","]">>), Str(<<"k","e","y","=","1">>),
                                   Str(<<"K","E","Y","=","2">>)>>))
    /\ Stream_GetValue(mData, NameSec, KeyKey, <<>>) = Text2

-----------------------------------------------------------------------------
(* SpecParse: files with a quoted value that does not end *)

NameT == Str(<<"t">>)
KeyQ == Str(<<"q">>)

\* The files ParseFile is given: the section s with the key k, well formed, and
\* then the section t with a key whose quoted value has no closing quote (at
\* the end of the file, before another line, with a single quote and a line end).
ErrorTexts ==
    { JoinLines(<<Str(<<"[","s","]">>), Str(<<"k","=","1">>), Str(<<"[","t","]">>),
                  Str(<<"q","=","\"","1">>)>>),
      JoinLines(<<Str(<<"[","s","]">>), Str(<<"k","=","1">>), Str(<<"[","t","]">>),
                  Str(<<"q","=","\"","1">>), Str(<<"k","=","2">>)>>),
      JoinLines(<<Str(<<"[","s","]">>), Str(<<"k","=","1">>), Str(<<"[","t","]">>),
                  Str(<<"q","=","'","1">>), <<>>>>) }

NextParse ==
    \/ \E bytes \in ErrorTexts : ParseFileCall(bytes)
    \/ \E sectionName \in {NameS, NameT}, keyName \in {KeyK, KeyQ} :
          SetValue(sectionName, keyName, Text2)
    \/ \E sectionName \in {NameS, NameT}, keyName \in {KeyK, KeyQ} :
          RemoveKey(sectionName, keyName)
    \/ \E sectionName \in {NameS, NameT} : RemoveSection(sectionName)

SpecParse == Init /\ [][NextParse]_vars

\* C2: ParseFile on a file with a well-formed first section and then a section
\* with a quoted value that does not end before the end of the line reports a
\* failure to the caller, and the entries of the first section can be read
\* with the values they have in the file.
ErrorContained ==
    (last.op = "ParseFile" /\ last.arg.val \in ErrorTexts)
    => /\ last.ret # "true"
       /\ Stream_GetValue(mData, NameS, KeyK, <<>>) = Text1

\* The parser has found the error, and the entries of the first section are in
\* the document with their values, after every such call.
ErrorFoundAndFirstSectionKept ==
    (last.op = "ParseFile" /\ last.arg.val \in ErrorTexts)
    => /\ \E i \in 1..Len(last.printed) : last.printed[i] = "String end tag not defined!"
       /\ Stream_GetValue(mData, NameS, KeyK, <<>>) = Text1

-----------------------------------------------------------------------------
(* SpecPartial: files with a structural error in one of their lines *)

KeyZ == Str(<<"z">>)

\* The lines before the line with the error, and the line after it.
LinesBefore == <<Str(<<"[","s","]">>), Str(<<"k","=","1">>)>>
LineAfter == Str(<<"z","=","2">>)

\* Lines with an error in a section header: no end; a header within a header; a
\* comment within a header.
HeaderErrorLines ==
    { Str(<<"[","t">>), Str(<<"[","t","[","u","]">>), Str(<<"[","t",";","c","]">>) }

\* Lines with an error in a key or a value: a bracket in the key; a bracket in
\* the value; no delimiter; a quoted value without its end.
EntryErrorLines ==
    { Str(<<"q","[","x","=","1">>), Str(<<"q","=","[","1">>), Str(<<"q"," ","1">>),
      Str(<<"q","=","\"","1">>) }

\* The files ParseFile is given: the lines before, a line with an error, and
\* then nothing or the line after.
PartialFile(errorLine, more) ==
    JoinLines(LinesBefore \o <<errorLine>> \o (IF more THEN <<LineAfter>> ELSE <<>>))

PartialTexts ==
    {PartialFile(errorLine, more) : errorLine \in HeaderErrorLines \cup EntryErrorLines,
                                    more \in BOOLEAN}

NextPartial ==
    \/ \E bytes \in PartialTexts : ParseFileCall(bytes)
    \/ \E sectionName \in {NameS, NameT}, keyName \in {KeyK, KeyQ, KeyZ} :
          SetValue(sectionName, keyName, Text2)
    \/ \E sectionName \in {NameS, NameT} : RemoveSection(sectionName)

SpecPartial == Init /\ [][NextPartial]_vars

\* The step is a call of ParseFile on a file with one of errorLines as its third
\* line, and the document after it is the one that ParseFile on the lines
\* before that line alone makes of the document before.
PartialResult(errorLines) ==
    (last'.op = "ParseFile" /\ \E errorLine \in errorLines, more \in BOOLEAN :
                                  last'.arg.val = PartialFile(errorLine, more))
    => mData' = ParseFile(mData, JoinLines(LinesBefore)).data

\* C15: after ParseFile on a file whose line i has a structural error (a section
\* header without its end, with a header or a comment within it; a bracket in a
\* key or in a value, no delimiter, a quoted value without its end), the
\* document is the one that the lines 1..i-1 alone produce: nothing of line i
\* or of a later line is added.
PartialResultKept == [][PartialResult(HeaderErrorLines \cup EntryErrorLines)]_vars

\* The document is the one of the lines before the error when the error is in
\* the line of a key and a value.
PartialResultKeptForEntries == [][PartialResult(EntryErrorLines)]_vars

-----------------------------------------------------------------------------
(* SpecHeaders: files with section headers, with and without entries *)

HeaderS == Str(<<"[","s","]">>)
HeaderUpperS == Str(<<"[","S","]">>)
HeaderT == Str(<<"[","t","]">>)
LineK == Str(<<"k","=","1">>)
LineA == Str(<<"a","=","1">>)
LineC == Str(<<";","c">>)

\* The files whose headers are each followed by an entry, a comment or an empty
\* line, or are the last line.
EntryHeaderFiles ==
    { <<HeaderS, LineK, HeaderT>>,
      <<HeaderUpperS, LineA>>,
      <<HeaderS, LineC, HeaderT>>,
      <<HeaderS, <<>>, HeaderT>> }

\* The files with a header that has no entries and is followed by a header.
BareHeaderFiles ==
    { <<HeaderS, HeaderT, LineK>>,
      <<HeaderUpperS, HeaderT>>,
      <<LineK, HeaderT, HeaderS, LineA>> }

NextHeaders ==
    \/ \E lines \in EntryHeaderFiles \cup BareHeaderFiles : ParseFileCall(JoinLines(lines))
    \/ \E sectionName \in {NameS, NameT}, keyName \in {KeyK, KeyQ} :
          SetValue(sectionName, keyName, Text2)
    \/ \E sectionName \in {NameS, NameT} : RemoveSection(sectionName)

SpecHeaders == Init /\ [][NextHeaders]_vars

\* The line is a header "[name]".
IsHeaderLine(line) ==
    /\ Len(line) >= 3
    /\ line[1] = LBRACKET
    /\ line[Len(line)] = RBRACKET

HeaderName(line) == SubSeq(line, 2, Len(line) - 1)

\* The last call is ParseFile on one of the files, it has reported no error,
\* and the document has a section for each header of the file.
HeadersOf(files) ==
    \A lines \in files :
        (last.op = "ParseFile" /\ last.arg.val = JoinLines(lines)
         /\ last.ret = "true" /\ last.printed = <<>>)
        => \A i \in 1..Len(lines) :
              IsHeaderLine(lines[i]) => HasSection(mData, HeaderName(lines[i]))

\* C19: after ParseFile without an error, the document has a section of the
\* folded name of each header "[name]" of the file, also of a header that has no
\* entries and is followed by another header.
HeadersRegistered == HeadersOf(EntryHeaderFiles \cup BareHeaderFiles)

\* The same for the files whose headers are each followed by an entry, a comment
\* or an empty line, or are the last line.
HeadersWithEntriesRegistered == HeadersOf(EntryHeaderFiles)

-----------------------------------------------------------------------------
(* SpecCodec: an escaped string is decoded, and the result is encoded again *)

MaxUnits == 2

\* The named escapes ConvertToEscapedString writes.
NamedEscapes ==
    { <<BACKSLASH, c>> : c \in {DQUOTE, BACKSLASH, Ord("b"), Ord("f"), Ord("n"), Ord("r"),
                               Ord("t"), Ord("v")} }

\* What ConvertToEscapedString writes for U+0041, U+00E9, U+20AC and U+1F600.
CodePointEscapes ==
    { Str(<<"A">>),
      <<BACKSLASH>> \o Str(<<"x","0","0","e","9">>),
      <<BACKSLASH>> \o Str(<<"x","2","0","a","c">>),
      <<BACKSLASH>> \o Str(<<"x","d","8","3","d">>) \o <<BACKSLASH>> \o Str(<<"x","d","e","0","0">>) }

\* The escaped strings of n units.
RECURSIVE EscapedStringsOf(_)
EscapedStringsOf(n) ==
    IF n = 0 THEN {<<>>}
    ELSE { s \o u : s \in EscapedStringsOf(n - 1), u \in NamedEscapes \cup CodePointEscapes }

EscapedStrings == UNION { EscapedStringsOf(n) : n \in 1..MaxUnits }

InitCodec ==
    /\ caseSensitive \in BOOLEAN
    /\ mData = NewStream
    /\ mNewline = <<CR, LF>>
    /\ mCommentCharacter = SEMICOLON
    /\ mValueQuoteCharacter = DQUOTE
    /\ mKeyValuePairDelimiter = EQUALS
    /\ file = NoFile
    /\ origin = NoOrigin
    /\ last = NoCall
    /\ codec \in { [pc |-> "start", s |-> s, decoded |-> Lit(<<>>), encoded |-> Lit(<<>>)] :
                   s \in EscapedStrings }

\* The lines of a buffer, one after the other.
RECURSIVE Flatten(_)
Flatten(buffer) == IF buffer = <<>> THEN <<>> ELSE Head(buffer) \o Flatten(Tail(buffer))

\* The text the loop "Read INI file contents" has made of a file of one line: the
\* characters of the line, without the LF the loop ends it with; [ok, text],
\* not ok when the loop throws.
Decoded(segmented) ==
    IF ~segmented.ok THEN [ok |-> FALSE, text |-> <<>>]
    ELSE Lit(SubSeq(Flatten(segmented.buffer), 1, Len(Flatten(segmented.buffer)) - 1))

\* The escape resolution of ParseFile on the escaped string.
Decode ==
    /\ codec.pc = "start"
    /\ codec' = [codec EXCEPT !.pc = "decoded", !.decoded = Decoded(Segment(codec.s))]
    /\ UNCHANGED <<caseSensitive, mData, style, file, origin, last>>

\* ConvertToEscapedString on what the resolution has returned.
Encode ==
    /\ codec.pc = "decoded"
    /\ codec.decoded.ok
    /\ codec' = [codec EXCEPT !.pc = "encoded",
                              !.encoded = ConvertToEscapedString(codec.decoded.text)]
    /\ UNCHANGED <<caseSensitive, mData, style, file, origin, last>>

NextCodec == Decode \/ Encode

SpecCodec == InitCodec /\ [][NextCodec]_vars

\* C3: the decoding of an escaped string made of named escapes and of the
\* forms the encoder writes for U+0041, U+00E9, U+20AC and U+1F600 succeeds, and
\* ConvertToEscapedString on the result gives the string back.
EscapeSymmetry ==
    /\ codec.pc \in {"decoded", "encoded"} => codec.decoded.ok
    /\ codec.pc = "encoded" => codec.encoded = Lit(codec.s)

\* The strings without a named escape are decoded, and encoded to themselves.
EscapeSymmetryOfCodePoints ==
    (\A i \in 1..Len(codec.s) :
        codec.s[i] = BACKSLASH => (i < Len(codec.s) /\ codec.s[i + 1] = LOWER_X))
    => EscapeSymmetry

-----------------------------------------------------------------------------
(* SpecLines: the same lines, ended by LF, by CR or by CR LF, are segmented *)

MaxLines == 2

MaxLineLen == 2

\* The characters of the lines: none is a terminator or a backslash.
LineChars == {Ord("a"), EQUALS}

RECURSIVE LinesOfLen(_)
LinesOfLen(n) ==
    IF n = 0 THEN {<<>>} ELSE { Append(l, c) : l \in LinesOfLen(n - 1), c \in LineChars }

LogicalLines == UNION { LinesOfLen(n) : n \in 0..MaxLineLen }

Terminators == {<<LF>>, <<CR>>, <<CR, LF>>}

\* The text of the lines, each ended by the terminator; the last one is not
\* ended when the text is not closed.
RECURSIVE JoinWith(_, _, _)
JoinWith(lines, terminator, closed) ==
    IF lines = <<>> THEN <<>>
    ELSE IF Len(lines) = 1 /\ ~closed THEN Head(lines)
    ELSE Head(lines) \o terminator \o JoinWith(Tail(lines), terminator, closed)

\* The texts: one or more lines, a terminator, and whether the last line is
\* ended; a last line that is not ended is not empty.
LineTexts ==
    { t \in [lines : UNION { [1..n -> LogicalLines] : n \in 1..MaxLines },
             terminator : Terminators, closed : BOOLEAN] :
        t.closed \/ t.lines[Len(t.lines)] # <<>> }

InitLines ==
    /\ caseSensitive \in BOOLEAN
    /\ mData = NewStream
    /\ mNewline = <<CR, LF>>
    /\ mCommentCharacter = SEMICOLON
    /\ mValueQuoteCharacter = DQUOTE
    /\ mKeyValuePairDelimiter = EQUALS
    /\ file = NoFile
    /\ origin = NoOrigin
    /\ last = NoCall
    /\ codec \in { [pc |-> "start", lines |-> t.lines, terminator |-> t.terminator,
                    s |-> JoinWith(t.lines, t.terminator, t.closed),
                    segmented |-> [ok |-> TRUE, buffer |-> <<>>]] : t \in LineTexts }

\* The loop "Read INI file contents" of ParseFile on the text.
ReadLines ==
    /\ codec.pc = "start"
    /\ codec' = [codec EXCEPT !.pc = "segmented", !.segmented = Segment(codec.s)]
    /\ UNCHANGED <<caseSensitive, mData, style, file, origin, last>>

NextLines == ReadLines

SpecLines == InitLines /\ [][NextLines]_vars

\* The lines of the text, each ended by one LF.
ExpectedBuffer(lines) == [i \in 1..Len(lines) |-> Append(lines[i], LF)]

LinesSegmented ==
    codec.pc = "segmented" =>
        (codec.segmented.ok /\ codec.segmented.buffer = ExpectedBuffer(codec.lines))

\* C18: a text without escape sequences is segmented into the same lines
\* whether its lines end with LF, with CR or with CR LF: each line of the text is
\* one line of the buffer, ended by one LF, and no character of a line is dropped
\* or doubled.
LineSegmentation == LinesSegmented

\* The same for the texts whose lines end with LF or with CR LF.
LineSegmentationOfLF == codec.terminator # <<CR>> => LinesSegmented

\* The same for the texts whose lines end with CR.
LineSegmentationOfCR == codec.terminator = <<CR>> => LinesSegmented

-----------------------------------------------------------------------------
(* SpecRoundTrip: a document is written, the file is loaded, and written again *)

\* A call of one of the four setters of the style: an argument that is not
\* allowed throws, and nothing changes.
StyleCall(allowed) ==
    /\ last' = Call("SetStyle", <<>>, NullOpt, "", IF allowed THEN "true" ELSE "throw")
    /\ file' = NoFile
    /\ origin' = NoOrigin
    /\ UNCHANGED <<caseSensitive, mData, codec>>

SetNewline(newline) ==
    /\ mNewline' = IF newline \in {<<LF>>, <<CR>>, <<CR, LF>>} THEN newline ELSE mNewline
    /\ UNCHANGED <<mCommentCharacter, mValueQuoteCharacter, mKeyValuePairDelimiter>>
    /\ StyleCall(newline \in {<<LF>>, <<CR>>, <<CR, LF>>})

\* SetCommentCharacter without the test of its argument.
SetCommentCharacterUnchecked(commentCharacter) ==
    /\ mCommentCharacter' = commentCharacter
    /\ UNCHANGED <<mNewline, mValueQuoteCharacter, mKeyValuePairDelimiter>>
    /\ StyleCall(TRUE)

SetCommentCharacter(commentCharacter) ==
    /\ mCommentCharacter' = IF commentCharacter \in {SEMICOLON, HASH}
                            THEN commentCharacter ELSE mCommentCharacter
    /\ UNCHANGED <<mNewline, mValueQuoteCharacter, mKeyValuePairDelimiter>>
    /\ StyleCall(commentCharacter \in {SEMICOLON, HASH})

SetValueQuoteCharacter(valueQuoteCharacter) ==
    /\ mValueQuoteCharacter' = IF valueQuoteCharacter \in {DQUOTE, SQUOTE}
                               THEN valueQuoteCharacter ELSE mValueQuoteCharacter
    /\ UNCHANGED <<mNewline, mCommentCharacter, mKeyValuePairDelimiter>>
    /\ StyleCall(valueQuoteCharacter \in {DQUOTE, SQUOTE})

SetKeyValuePairDelimiter(keyValuePairDelimiter) ==
    /\ mKeyValuePairDelimiter' = IF keyValuePairDelimiter \in {EQUALS, COLON}
                                 THEN keyValuePairDelimiter ELSE mKeyValuePairDelimiter
    /\ UNCHANGED <<mNewline, mCommentCharacter, mValueQuoteCharacter>>
    /\ StyleCall(keyValuePairDelimiter \in {EQUALS, COLON})

\* stream.SetValue(sectionName, keyName, value, true): the value is written in quotes.
SetValueQuoted(sectionName, keyName, value) ==
    LET r == Stream_SetValue(mData, sectionName, keyName, value, TRUE) IN
    DocumentCall(r.data, [Call("SetValue", sectionName, Some(keyName), "", r.ret)
                             EXCEPT !.arg = Some(value)])

SetInlineComment(sectionName, keyName, inlineComment) ==
    LET r == Stream_SetInlineComment(mData, sectionName, keyName, inlineComment) IN
    DocumentCall(r.data, Call("SetInlineComment", <<>>, NullOpt, "", r.ret))

SetSectionInlineComment(sectionName, inlineComment) ==
    LET r == Stream_SetSectionInlineComment(mData, sectionName, inlineComment) IN
    DocumentCall(r.data, Call("SetSectionInlineComment", <<>>, NullOpt, "", r.ret))

\* The return of WriteFile with w: the file holds the bytes written.
WriteFileReturn(formatted, w) ==
    /\ file' = [written |-> TRUE, bytes |-> w.bytes, formatted |-> formatted, ret |-> w.ret,
                bomType |-> w.bomType]
    /\ last' = Call("WriteFile", <<>>, NullOpt, "", w.ret)
    /\ UNCHANGED <<caseSensitive, mData, style, origin, codec>>

\* stream.WriteFile(fileName, formatted), without a byte order mark.
WriteFileCall(formatted) == WriteFileReturn(formatted, WriteFile(mData, formatted, BOMNone))

\* The return of ParseFile with r in a fresh document.  inlineComment.front() on
\* an empty string is undefined: the call goes on, or the process is stopped.
LoadReturn(r) ==
    \E stopped \in (IF r.emptyFront THEN BOOLEAN ELSE {FALSE}) :
        /\ Bounded(r.data)
        /\ mData' = r.data
        /\ origin' = [loaded |-> TRUE, bytes |-> file.bytes, formatted |-> file.formatted,
                      ret |-> IF stopped THEN "abort" ELSE r.ret]
        /\ file' = NoFile
        /\ last' = [Call("ParseFile", <<>>, NullOpt, "", IF stopped THEN "abort" ELSE r.ret)
                       EXCEPT !.arg = Some(file.bytes), !.printed = r.printed]
        /\ UNCHANGED <<caseSensitive, style, codec>>

\* The file WriteFile has written is parsed into a fresh document that has the
\* style of the document it was written from.
Load ==
    /\ file.written /\ file.ret = "true"
    /\ LoadReturn(ParseFile(NewStream, file.bytes))

\* A character none of the four setters allows.
NotAllowed == Ord("!")

NextRoundTrip ==
    \/ \E newline \in {<<LF>>, <<CR>>, <<CR, LF>>, <<NotAllowed>>} : SetNewline(newline)
    \/ \E commentCharacter \in {SEMICOLON, HASH, NotAllowed} :
          SetCommentCharacter(commentCharacter)
    \/ \E valueQuoteCharacter \in {DQUOTE, SQUOTE, NotAllowed} :
          SetValueQuoteCharacter(valueQuoteCharacter)
    \/ \E keyValuePairDelimiter \in {EQUALS, COLON, NotAllowed} :
          SetKeyValuePairDelimiter(keyValuePairDelimiter)
    \/ SetValue(GlobalName, KeyK, Text1)
    \/ SetValueQuoted(NameS, KeyK, Text1)
    \/ SetArrayEntry(NameS, KeyA, NullOpt)
    \/ SetComment(<<>>, PosEnd, NullOpt)
    \/ SetEmptyLine(<<>>, PosEnd, NullOpt)
    \/ AddSection(NameS)
    \/ SetInlineComment(GlobalName, KeyK, TextC)
    \/ SetSectionInlineComment(NameS, TextC)
    \/ \E formatted \in BOOLEAN : WriteFileCall(formatted)
    \/ Load

SpecRoundTrip == Init /\ [][NextRoundTrip]_vars

\* C1: when x is the output of WriteFile for a document made by SetValue, array
\* inserts, SetComment, SetEmptyLine, AddSection and inline comments, in any
\* allowed style, then ParseFile of x into a fresh document and WriteFile with
\* the same style and the same formatting write x again, byte for byte.
RoundTrip ==
    (origin.loaded /\ file.written /\ file.formatted = origin.formatted)
    => (file.ret = "true" /\ file.bytes = origin.bytes)

-----------------------------------------------------------------------------
(* SpecStyle: the four options of the style *)

\* The values the style may have.
Newlines == {<<LF>>, <<CR>>, <<CR, LF>>}
CommentCharacters == {SEMICOLON, HASH}
ValueQuoteCharacters == {DQUOTE, SQUOTE}
KeyValuePairDelimiters == {EQUALS, COLON}

\* The arguments a caller passes to the setters: the values allowed and others.
NewlineArgs == Newlines \cup {<<>>, <<LF, CR>>, <<NotAllowed>>}
CharacterArgs ==
    {SEMICOLON, HASH, DQUOTE, SQUOTE, EQUALS, COLON, NotAllowed, NUL}

NextStyle ==
    \/ \E newline \in NewlineArgs : SetNewline(newline)
    \/ \E commentCharacter \in CharacterArgs : SetCommentCharacter(commentCharacter)
    \/ \E valueQuoteCharacter \in CharacterArgs : SetValueQuoteCharacter(valueQuoteCharacter)
    \/ \E keyValuePairDelimiter \in CharacterArgs :
          SetKeyValuePairDelimiter(keyValuePairDelimiter)
    \/ SetValueQuoted(NameS, KeyK, Text1)
    \/ SetComment(<<>>, PosEnd, NullOpt)
    \/ WriteFileCall(FALSE)
    \/ Load

SpecStyle == Init /\ [][NextStyle]_vars

\* The four options have values that are allowed.
StyleValid ==
    /\ mNewline \in Newlines
    /\ mCommentCharacter \in CommentCharacters
    /\ mValueQuoteCharacter \in ValueQuoteCharacters
    /\ mKeyValuePairDelimiter \in KeyValuePairDelimiters

\* The call of a setter has been rejected and the four options are as they were.
StyleCallRejected == last'.op = "SetStyle" /\ last'.ret = "throw" /\ UNCHANGED style

\* C14: the newline is LF, CR or CRLF, the comment character ; or #, the quote
\* character " or ' and the delimiter = or :, from construction on and after
\* every call; every call of a setter with another value is rejected and
\* leaves the four options as they were.
StyleStaysValid ==
    /\ []StyleValid
    /\ [][ /\ \A newline \in NewlineArgs \ Newlines :
                SetNewline(newline) => StyleCallRejected
           /\ \A c \in CharacterArgs \ CommentCharacters :
                SetCommentCharacter(c) => StyleCallRejected
           /\ \A c \in CharacterArgs \ ValueQuoteCharacters :
                SetValueQuoteCharacter(c) => StyleCallRejected
           /\ \A c \in CharacterArgs \ KeyValuePairDelimiters :
                SetKeyValuePairDelimiter(c) => StyleCallRejected ]_vars

\* C14's case: a setter has rejected its argument when the four options all
\* had other values than the ones of a new stream.
StyleRejectedWitness ==
    /\ last.op = "SetStyle" /\ last.ret = "throw"
    /\ mNewline = <<LF>> /\ mCommentCharacter = HASH
    /\ mValueQuoteCharacter = SQUOTE /\ mKeyValuePairDelimiter = COLON

-----------------------------------------------------------------------------
(* SpecBOM: byte order marks read by ParseFile and written by WriteFile *)

BOMTypes == {BOMNone, BOMUTF8, BOMUTF16LE, BOMUTF16BE, BOMUTF32LE, BOMUTF32BE}

\* The first four bytes of the files ParseFile is given: every choice of 00, FE
\* and FF for each of them; letters after a mark and in the places of the
\* encodings without a mark; EF BB BF and what is close to it.
Prefixes ==
    {<<b0, b1, b2, b3>> : b0 \in {0, 254, 255}, b1 \in {0, 254, 255},
                          b2 \in {0, 254, 255}, b3 \in {0, 254, 255}}
    \cup {<<255, 254, 65, 0>>, <<254, 255, 0, 65>>, <<65, 0, 65, 0>>, <<0, 65, 0, 65>>,
          <<65, 0, 0, 0>>, <<0, 0, 0, 65>>, <<65, 65, 65, 65>>}
    \cup {<<239, 187, 191, b3>> : b3 \in {0, 65, 255}}
    \cup {<<239, 187, 65, 65>>, <<239, 65, 191, 65>>, <<65, 187, 191, 65>>}

\* The files: four bytes, the end of the line and a key with its value.
PrefixTexts == {prefix \o <<LF>> \o Str(<<"k","=","1">>) : prefix \in Prefixes}

\* stream.WriteFile(fileName, formatted, bomType)
WriteFileAs(formatted, bomType) ==
    WriteFileReturn(formatted, WriteFile(mData, formatted, bomType))

NextBOM ==
    \/ \E bytes \in PrefixTexts : ParseFileCall(bytes)
    \/ SetValue(GlobalName, KeyK, Text1)
    \/ SetValueQuoted(NameS, KeyK, Text1)
    \/ RemoveSection(NameS)
    \/ RemoveKey(GlobalName, KeyK)
    \/ \E formatted \in BOOLEAN, bomType \in BOMTypes : WriteFileAs(formatted, bomType)
    \/ Load

SpecBOM == Init /\ [][NextBOM]_vars

\* What C16 says of a file from its first four bytes p: the type of the mark
\* and the number of bytes skipped; the type None stands for no mark.
ClaimedBOM(p) ==
    IF p = <<255, 254, 0, 0>> THEN [bomType |-> BOMUTF32LE, bytesToSkip |-> 4]
    ELSE IF p = <<0, 0, 254, 255>> THEN [bomType |-> BOMUTF32BE, bytesToSkip |-> 4]
    ELSE IF SubSeq(p, 1, 2) = <<255, 254>> THEN [bomType |-> BOMUTF16LE, bytesToSkip |-> 2]
    ELSE IF SubSeq(p, 1, 2) = <<254, 255>> THEN [bomType |-> BOMUTF16BE, bytesToSkip |-> 2]
    ELSE IF SubSeq(p, 1, 3) = <<239, 187, 191>> THEN [bomType |-> BOMUTF8, bytesToSkip |-> 3]
    ELSE [bomType |-> BOMNone, bytesToSkip |-> 0]

\* The detector is as C16 says on the file with these bytes: with a mark, the
\* type and the bytes to skip; without one, no byte to skip.
DetectedAsClaimed(bytes) ==
    LET claimed == ClaimedBOM(SubSeq(bytes, 1, 4)) IN
    /\ DetectBOM(bytes).bytesToSkip = claimed.bytesToSkip
    /\ claimed.bomType # BOMNone => DetectBOM(bytes).bomType = claimed.bomType

\* C16: in every file ParseFile reads, FF FE 00 00 is found as UTF-32LE, 00 00 FE
\* FF as UTF-32BE, FF FE before anything else as UTF-16LE, FE FF as UTF-16BE and
\* EF BB BF as UTF-8, with 4, 4, 2, 2 and 3 bytes skipped, and 0 bytes without
\* a mark; and in every file WriteFile has written that ParseFile reads (6 bytes
\* or more), the mark found is the one WriteFile was asked for.
BOMDetected ==
    /\ last.op = "ParseFile" /\ Len(last.arg.val) >= 6 => DetectedAsClaimed(last.arg.val)
    /\ (file.written /\ Len(file.bytes) >= 6)
       => /\ DetectedAsClaimed(file.bytes)
          /\ file.bomType # BOMNone => DetectBOM(file.bytes).bomType = file.bomType
          /\ DetectBOM(file.bytes).bytesToSkip = Len(BOMBytes(file.bomType))

\* C16's case: ParseFile has read a file that begins with FF FE 00 00, the mark
\* of UTF-32LE, whose first two bytes are the mark of UTF-16LE.
BOMDetectedWitness ==
    /\ last.op = "ParseFile"
    /\ SubSeq(last.arg.val, 1, 4) = <<255, 254, 0, 0>>

\* WriteFile has written a file with the mark of UTF-16BE and a section in it.
BOMWrittenWitness ==
    /\ file.written /\ file.bomType = BOMUTF16BE /\ Len(file.bytes) >= 6
    /\ Len(mData) = 2

-----------------------------------------------------------------------------
(* SpecSize: files of a few bytes *)

\* The files ParseFile is given: of 0 to 5 bytes, well formed but for their
\* size, and of 6 and 7 bytes.
SizeTexts ==
    { <<>>, Str(<<"k">>), Str(<<"k","=">>), Str(<<"k","=","2">>), Str(<<"[","s","]">>),
      Str(<<"k","=","2">>) \o <<LF>>, Str(<<"k","k","=","2","2">>),
      JoinLines(<<Str(<<"[","s","]">>), Str(<<"k">>)>>),
      Str(<<"k","k","=","2","2","2">>),
      JoinLines(<<Str(<<"[","s","]">>), Str(<<"k","=","2">>)>>) }

NextSize ==
    \/ \E bytes \in SizeTexts : ParseFileCall(bytes)
    \/ \E sectionName \in {GlobalName, NameS}, keyName \in {KeyK, KeyA} :
          SetValue(sectionName, keyName, Text1)
    \/ SetComment(<<>>, PosEnd, NullOpt)
    \/ RemoveSection(NameS)

SpecSize == Init /\ [][NextSize]_vars

\* C17: ParseFile on a file of 0 bytes fails as an empty file and on a file of 1
\* to 5 bytes as a file that is too small: it returns false and the document
\* is as it was before the call.
SizeGate ==
    [][ (last'.op = "ParseFile" /\ Len(last'.arg.val) < 6)
        => /\ last'.ret = "false"
           /\ mData' = mData
           /\ last'.printed = IF Len(last'.arg.val) = 0
                               THEN <<"INI file is empty!">>
                               ELSE <<"INI file cannot be smaller than 6 bytes!">> ]_vars

\* C17's case: ParseFile has refused a file of 5 bytes, a section header and a
\* key, given on top of a document with a section s and a comment.
SizeGateWitness ==
    /\ last.op = "ParseFile" /\ last.ret = "false" /\ Len(last.arg.val) = 5
    /\ Len(mData) = 2 /\ HasSection(mData, GlobalName)
    /\ Len(GlobalEntries(mData)) >= 1

-----------------------------------------------------------------------------
(* SpecUpdate: a file sets a key that the section already has *)

TextD == Str(<<"d">>)

\* The entry lines of the files, with the key, the value, the quoting and the
\* inline comment each one states.
UpdateLines ==
    { [line |-> Str(<<"k","=","2">>), key |-> KeyK, value |-> Text2,
       addQuotes |-> FALSE, inlineComment |-> NullOpt],
      [line |-> Str(<<"K","=","\"","2","\"">>), key |-> KeyUpperK, value |-> Text2,
       addQuotes |-> TRUE, inlineComment |-> NullOpt],
      [line |-> Str(<<"k","=","2"," ",";","d">>), key |-> KeyK, value |-> Text2,
       addQuotes |-> FALSE, inlineComment |-> Some(TextD)],
      [line |-> Str(<<"k","=","\"","2","\""," ",";","d">>), key |-> KeyK, value |-> Text2,
       addQuotes |-> TRUE, inlineComment |-> Some(TextD)] }

\* The file: the header of the section s and the entry line.
UpdateFile(u) == JoinLines(<<HeaderS, u.line>>)

NextUpdate ==
    \/ \E u \in UpdateLines : ParseFileCall(UpdateFile(u))
    \/ \E keyName \in {KeyK, KeyA} : SetValue(NameS, keyName, Text1)
    \/ SetValueQuoted(NameS, KeyK, Text1)
    \/ \E inlineComment \in {TextC, <<>>} : SetInlineComment(NameS, KeyK, inlineComment)
    \/ RemoveKey(NameS, KeyK)

SpecUpdate == Init /\ [][NextUpdate]_vars

\* The entries of the section s.
EntriesOfS(data) == data[GetSection(data, NameS)].mKeyValuePairs

\* The document has the section s with the key of the line, at this position.
KeyAt(data, u, at) ==
    /\ HasSection(data, NameS)
    /\ at = FindKey(EntriesOfS(data), Fold(u.key))
    /\ at # 0

\* The entry with the value, the quoting and the inline comment of the line.
Replaced(u, entry) ==
    [entry EXCEPT !.mValue = u.value, !.mAddQuotes = u.addQuotes,
                  !.mInlineComment = u.inlineComment]

\* The entry with the value of the line, and the quoting and the inline comment
\* it had.
ValueReplaced(u, entry) == [entry EXCEPT !.mValue = u.value]

\* The step is ParseFile on the file of a line whose key the section s has, and
\* after it the sections are the same but for the entry of the key, which is at
\* the position it had, with its metadata kept or replaced.
UpdateGives(u, kept) ==
    \A at \in 1..(MaxSize + 1) :
        (KeyAt(mData, u, at) /\ last'.op = "ParseFile" /\ last'.arg.val = UpdateFile(u))
        => /\ last'.ret = "true"
           /\ Len(mData') = Len(mData)
           /\ \A i \in 1..Len(mData) : i # GetSection(mData, NameS) => mData'[i] = mData[i]
           /\ EntriesOfS(mData') =
                 [EntriesOfS(mData) EXCEPT ![at] = IF kept THEN ValueReplaced(u, @)
                                                           ELSE Replaced(u, @)]

\* C20 as the spec states it: a parsed key/value line whose key the current
\* section has replaces the value of the entry, and the entry keeps its inline
\* comment, its quoting flag and its position.
UpdatePreservesMetadata == [][\A u \in UpdateLines : UpdateGives(u, TRUE)]_vars

\* C20: a parsed key/value line whose key the current section has leaves the
\* entry at its position and replaces its value, its quoting flag and its
\* inline comment by those of the line; the inline comment is removed when the
\* line has none.
UpdateReplacesMetadata == [][\A u \in UpdateLines : UpdateGives(u, FALSE)]_vars

\* ParseFile on the file with the line k="2" ;d has set the key k that the
\* section s had before its key a: the entry is the first one, with the value,
\* the quoting and the inline comment of the line.
UpdateReplacesWitness ==
    /\ last.op = "ParseFile"
    /\ last.ret = "true"
    /\ last.arg.val = JoinLines(<<HeaderS, Str(<<"k","=","\"","2","\""," ",";","d">>)>>)
    /\ HasSection(mData, NameS)
    /\ Len(EntriesOfS(mData)) = 2
    /\ EntriesOfS(mData)[1] =
          [NewData(Fold(KeyK), Text2, TypeValue, TRUE, FALSE) EXCEPT !.mInlineComment = Some(TextD)]
    /\ EntriesOfS(mData)[2].mKey = Fold(KeyA)

-----------------------------------------------------------------------------
(* SpecQuotes: files that set the key k to a quoted value *)

\* The lines whose value has one kind of quote, with what they state: the value
\* between the quotes, or no value when the opening quote is never closed.
MatchedQuoteLines ==
    { [line |-> Str(<<"k","=","\"","a","b","c","\"">>), ok |-> TRUE, value |-> Str(<<"a","b","c">>)],
      [line |-> Str(<<"k","=","'","a","b","c","'">>), ok |-> TRUE, value |-> Str(<<"a","b","c">>)],
      [line |-> Str(<<"k","=","\"","a"," ","c","\"">>), ok |-> TRUE, value |-> Str(<<"a"," ","c">>)],
      [line |-> Str(<<"k","=","\"","a","b","c">>), ok |-> FALSE, value |-> <<>>],
      [line |-> Str(<<"k","=","'","a","b","c">>), ok |-> FALSE, value |-> <<>>] }

\* The lines whose value has both kinds of quote: the other quote within the
\* quotes, and the other quote where the closing quote should be.
MixedQuoteLines ==
    { [line |-> Str(<<"k","=","\"","a","'","c","\"">>), ok |-> TRUE, value |-> Str(<<"a","'","c">>)],
      [line |-> Str(<<"k","=","'","a","\"","c","'">>), ok |-> TRUE, value |-> Str(<<"a","\"","c">>)],
      [line |-> Str(<<"k","=","\"","a","b","c","'">>), ok |-> FALSE, value |-> <<>>],
      [line |-> Str(<<"k","=","'","a","b","c","\"">>), ok |-> FALSE, value |-> <<>>] }

NextQuotes ==
    \/ \E q \in MatchedQuoteLines \cup MixedQuoteLines : ParseFileCall(q.line)
    \/ \E keyName \in {KeyK, KeyA}, value \in {Text1, Text2} : SetValue(GlobalName, keyName, value)
    \/ SetValueQuoted(GlobalName, KeyK, Text1)
    \/ \E keyName \in {KeyK, KeyA} : RemoveKey(GlobalName, keyName)

SpecQuotes == Init /\ [][NextQuotes]_vars

\* The messages of a quoted value that does not end.
QuoteErrors == {<<"String end tag not defined!">>,
                <<"String end tag not defined!", "Value end tag (New line) was not found!">>,
                <<"Value end tag (New line) was not found!">>}

\* The last call is ParseFile on the file of one of the lines: it has stored the
\* value the line states, quoted, or has reported that the quote has no end.
QuotesOf(quoteLines) ==
    \A q \in quoteLines :
        (last.op = "ParseFile" /\ last.arg.val = q.line)
        => IF q.ok
           THEN /\ last.ret = "true"
                /\ last.printed = <<>>
                /\ \E i \in 1..Len(GlobalEntries(mData)) :
                      /\ GlobalEntries(mData)[i].mKey = Fold(KeyK)
                      /\ GlobalEntries(mData)[i].mValue = q.value
                      /\ GlobalEntries(mData)[i].mAddQuotes
           ELSE last.printed \in QuoteErrors

\* C21: a quoted value ends at the next quote of the kind that opened it, the
\* other quote within it is content, and a value whose opening quote has no
\* closing quote of its kind before the end of the line is an error.
MatchingQuote == QuotesOf(MatchedQuoteLines \cup MixedQuoteLines)

\* The same for the values with one kind of quote.
MatchingQuoteOfOneKind == QuotesOf(MatchedQuoteLines)

-----------------------------------------------------------------------------
(* SpecBrackets: files that set the key q with a bracket in the line *)

\* A bracket in the key, and in a value without quotes.
BareBracketLines ==
    { Str(<<"q","[","x","=","1","2">>), Str(<<"q","]","x","=","1","2">>),
      Str(<<"q","=","1","[","2","3">>), Str(<<"q","=","1","]","2","3">>) }

\* A bracket in a quoted value, with the value between the quotes.
QuotedBracketLines ==
    { [line |-> Str(<<"q","=","\"","1","[","2","\"">>), value |-> Str(<<"1","[","2">>)],
      [line |-> Str(<<"q","=","'","1","]","2","'">>), value |-> Str(<<"1","]","2">>)] }

NextBrackets ==
    \/ \E line \in BareBracketLines \cup { b.line : b \in QuotedBracketLines } :
          ParseFileCall(line)
    \/ \E keyName \in {KeyK, KeyQ}, value \in {Text1, Text2} : SetValue(GlobalName, keyName, value)
    \/ \E keyName \in {KeyK, KeyQ} : SetValueQuoted(GlobalName, keyName, Text1)
    \/ \E keyName \in {KeyK, KeyQ} : RemoveKey(GlobalName, keyName)

SpecBrackets == Init /\ [][NextBrackets]_vars

\* The messages of a bracket in a key or in a value.
BracketErrors == {"Start section tag within key tag!", "Close section tag within key tag!",
                  "Start section tag within value tag!", "Close section tag within value tag!"}

\* The step is ParseFile on the file of a line with a bracket in the key or in
\* a value without quotes: the bracket is reported and the document is as it was.
BareBracketRefused ==
    (last'.op = "ParseFile" /\ last'.arg.val \in BareBracketLines)
    => (last'.printed # <<>> /\ last'.printed[1] \in BracketErrors /\ mData' = mData)

\* The step is ParseFile on the file of a line with a bracket in a quoted value:
\* nothing is reported, and the key q has the value between the quotes, quoted.
QuotedBracketStored ==
    \A b \in QuotedBracketLines :
        (last'.op = "ParseFile" /\ last'.arg.val = b.line)
        => /\ last'.ret = "true"
           /\ last'.printed = <<>>
           /\ \E i \in 1..Len(GlobalEntries(mData')) :
                 /\ GlobalEntries(mData')[i].mKey = Fold(KeyQ)
                 /\ GlobalEntries(mData')[i].mValue = b.value
                 /\ GlobalEntries(mData')[i].mAddQuotes

\* C22: a bracket in a key or in a value without quotes is an error that ends
\* the parse, and a bracket in a quoted value is accepted and stored as part of
\* the value.
BracketsOutsideQuotes == [][BareBracketRefused /\ QuotedBracketStored]_vars

\* The first half: a bracket in a key or in a value without quotes is an error.
BracketsRefused == [][BareBracketRefused]_vars

-----------------------------------------------------------------------------
(* SpecArrayQuotes: elements with a quoted value are added to the array k *)

TextV == Str(<<"v">>)

\* The files: an element with the quoted value v, with and without an index and
\* an inline comment.
QuotedElementLines ==
    { Str(<<"k","[","]","=","\"","v","\"">>),
      Str(<<"k","[","5","]","=","\"","v","\"">>),
      Str(<<"k","[","]","=","\"","v","\""," ",";","c">>),
      Str(<<"k","[","5","]","=","\"","v","\""," ",";","c">>) }

\* stream[sectionName].SetArrayEntry(key, "v", true, setInlineComment, "c", arrayIndex, hasArrayIndex)
SetArrayEntryQuoted(sectionName, key, arrayIndex, setInlineComment) ==
    LET r == Stream_SetArrayEntry(mData, sectionName, key, TextV, TRUE, setInlineComment, TextC,
                                  arrayIndex.val, arrayIndex.has)
    IN  DocumentCall(r.data, [Call("SetArrayEntry", sectionName, Some(key), "", r.ret)
                                 EXCEPT !.arg = arrayIndex])

NextArrayQuotes ==
    \/ \E line \in QuotedElementLines : ParseFileCall(line)
    \/ \E arrayIndex \in {NullOpt, Some(Text5)}, setInlineComment \in BOOLEAN :
          SetArrayEntryQuoted(GlobalName, KeyK, arrayIndex, setInlineComment)
    \/ \E arrayIndex \in {NullOpt, Some(Text5)} : SetArrayEntry(GlobalName, KeyK, arrayIndex)
    \/ RemoveKey(GlobalName, KeyK)

SpecArrayQuotes == Init /\ [][NextArrayQuotes]_vars

\* The elements of the arrays of the document that have the value v: only the
\* files and the calls with a quoted value store it.
ElementsOfV ==
    { e \in UNION { UNION { { mData[i].mKeyValuePairs[j].mArray[n] :
                                n \in 1..Len(mData[i].mKeyValuePairs[j].mArray) } :
                            j \in 1..Len(mData[i].mKeyValuePairs) } :
                    i \in 1..Len(mData) } : e.mValue = TextV }

\* C23: an array element added with a quoted value, by a parsed line or by
\* SetArrayEntry with addQuotes true, has its quoting flag set, with or without
\* an inline comment, and whether the element is new or was there before.
ElementQuotingFlag == \A e \in ElementsOfV : e.mAddQuotes

\* The same for the elements that have an inline comment.
ElementQuotingFlagWithComment == \A e \in ElementsOfV : e.mInlineComment.has => e.mAddQuotes

-----------------------------------------------------------------------------
(* SpecMalformed: a text with \x and fewer than four hexadecimal digits is decoded *)

\* Up to n hexadecimal digits.
RECURSIVE HexRuns(_)
HexRuns(n) ==
    IF n = 0 THEN {<<>>}
    ELSE HexRuns(n - 1) \cup { Append(h, c) : h \in HexRuns(n - 1),
                                              c \in {Ord("1"), Ord("a"), Ord("F")} }

\* What comes after the digits: a character that is no hexadecimal digit, alone
\* or before another one, or the end of the input.
MalformedTails == { Str(<<"z">>), Str(<<"=","z">>), <<>> }

\* The texts: a \x that is the start or comes after a character, fewer than four
\* digits, and a tail.
MalformedStrings ==
    { prefix \o <<BACKSLASH, LOWER_X>> \o digits \o tail :
        prefix \in {<<>>, Str(<<"k">>)}, digits \in HexRuns(3), tail \in MalformedTails }

InitMalformed ==
    /\ caseSensitive \in BOOLEAN
    /\ mData = NewStream
    /\ mNewline = <<CR, LF>>
    /\ mCommentCharacter = SEMICOLON
    /\ mValueQuoteCharacter = DQUOTE
    /\ mKeyValuePairDelimiter = EQUALS
    /\ file = NoFile
    /\ origin = NoOrigin
    /\ last = NoCall
    /\ codec \in { [pc |-> "start", s |-> s, decoded |-> Lit(<<>>), encoded |-> Lit(<<>>)] :
                   s \in MalformedStrings }

SpecMalformed == InitMalformed /\ [][NextCodec]_vars

\* C24: the resolution of a text with a backslash and an x that no four
\* hexadecimal digits follow, also when fewer than four characters are left,
\* raises no error and gives the characters of the text, the backslash included.
MalformedIsLiteral == codec.pc \in {"decoded", "encoded"} => codec.decoded = Lit(codec.s)

\* The text without its backslash.
Unslashed(s) == SelectSeq(s, LAMBDA c : c # BACKSLASH)

\* When a character that is no hexadecimal digit follows the x or the digits, no
\* error is raised and the text is given without its backslash.
MalformedLosesBackslash ==
    (codec.pc \in {"decoded", "encoded"} /\ codec.s[Len(codec.s)] = Ord("z"))
    => codec.decoded = Lit(Unslashed(codec.s))

\* When the input ends before four characters have followed the x, the
\* resolution throws.
MalformedAtEndThrows ==
    (codec.pc \in {"decoded", "encoded"} /\ codec.s[Len(codec.s)] # Ord("z"))
    => ~codec.decoded.ok

-----------------------------------------------------------------------------
(* SpecEscape: ConvertToEscapedString on a string of ASCII bytes *)

\* The strings: each byte from 0x00 to 0x7e alone, and after the letter k.
AsciiStrings ==
    { <<b>> : b \in 0..126 } \cup { <<Ord("k"), b>> : b \in 0..31 }

\* The stream holds the string that is about to be written.
InitEscape ==
    /\ caseSensitive \in BOOLEAN
    /\ mData = NewStream
    /\ mNewline = <<CR, LF>>
    /\ mCommentCharacter = SEMICOLON
    /\ mValueQuoteCharacter = DQUOTE
    /\ mKeyValuePairDelimiter = EQUALS
    /\ file = NoFile
    /\ origin = NoOrigin
    /\ last = NoCall
    /\ codec \in { [pc |-> "decoded", s |-> <<>>, decoded |-> Lit(value), encoded |-> Lit(<<>>)] :
                   value \in AsciiStrings }

NextEscape == Encode

SpecEscape == InitEscape /\ [][NextEscape]_vars

LowerHexDigit(n) == IF n < 10 THEN Ord("0") + n ELSE Ord("a") + (n - 10)

\* What the byte is to become: the named escape, \x00HH for the other bytes
\* below 0x20, \" and \\, and the byte itself.
EscapeOfByte(b) ==
    CASE b = 8 -> <<BACKSLASH, Ord("b")>>
      [] b = 9 -> <<BACKSLASH, Ord("t")>>
      [] b = 10 -> <<BACKSLASH, Ord("n")>>
      [] b = 11 -> <<BACKSLASH, Ord("v")>>
      [] b = 12 -> <<BACKSLASH, Ord("f")>>
      [] b = 13 -> <<BACKSLASH, Ord("r")>>
      [] b = 34 -> <<BACKSLASH, 34>>
      [] b = 92 -> <<BACKSLASH, 92>>
      [] b < 32 /\ b \notin 8..13 ->
            <<BACKSLASH, Ord("x"), Ord("0"), Ord("0"), LowerHexDigit(b \div 16), LowerHexDigit(b % 16)>>
      [] OTHER -> <<b>>

RECURSIVE EscapeOfBytes(_)
EscapeOfBytes(value) ==
    IF value = <<>> THEN <<>> ELSE EscapeOfByte(Head(value)) \o EscapeOfBytes(Tail(value))

\* ConvertToEscapedString has returned the escapes of the bytes of the strings
\* that hold none of the bytes.
EscapedBut(bytes) ==
    (codec.pc = "encoded" /\ \A i \in 1..Len(codec.decoded.text) : codec.decoded.text[i] \notin bytes)
    => codec.encoded = Lit(EscapeOfBytes(codec.decoded.text))

\* C25: ConvertToEscapedString writes each byte from 0x00 to 0x1f as its named
\* escape (\b \t \n \v \f \r) or else as \x00HH with lower-case digits, never
\* raw; it writes " and \ as \" and \\, and the other bytes from 0x20 to 0x7e
\* unchanged.
ControlBytesEscaped == EscapedBut({})

\* The same for the strings without the byte 0x1f.
ControlBytesBelow1FEscaped == EscapedBut({31})

-----------------------------------------------------------------------------
(* SpecSurrogates: the escapes of a surrogate pair are decoded, and encoded again *)

\* Code points from 0x10000 to 0x10ffff: the ends of the range, the ends of a
\* block of low surrogates, U+1F600, and one in every 17417.
SurrogateCodePoints ==
    {65536, 65537, 66559, 66560, 128512, 1048575, 1048576, 1113088, 1114110, 1114111}
    \cup { 65536 + 17417 * k : k \in 0..60 }

HighSurrogate(c) == 55296 + ((c - 65536) \div 1024)

LowSurrogate(c) == 56320 + ((c - 65536) % 1024)

\* \xHHHH with four lower-case hexadecimal digits.
FourDigitEscape(n) ==
    <<BACKSLASH, LOWER_X, LowerHexDigit(n \div 4096), LowerHexDigit((n \div 256) % 16),
      LowerHexDigit((n \div 16) % 16), LowerHexDigit(n % 16)>>

\* The escapes of the pair of a code point.
PairEscape(c) == FourDigitEscape(HighSurrogate(c)) \o FourDigitEscape(LowSurrogate(c))

\* The four bytes of the code point in UTF-8.
FourByteForm(c) ==
    <<240 + (c \div 262144), 128 + ((c \div 4096) % 64), 128 + ((c \div 64) % 64), 128 + (c % 64)>>

InitSurrogates ==
    /\ caseSensitive \in BOOLEAN
    /\ mData = NewStream
    /\ mNewline = <<CR, LF>>
    /\ mCommentCharacter = SEMICOLON
    /\ mValueQuoteCharacter = DQUOTE
    /\ mKeyValuePairDelimiter = EQUALS
    /\ file = NoFile
    /\ origin = NoOrigin
    /\ last = NoCall
    /\ codec \in { [pc |-> "start", s |-> PairEscape(c), decoded |-> Lit(<<>>),
                    encoded |-> Lit(<<>>)] : c \in SurrogateCodePoints }

SpecSurrogates == InitSurrogates /\ [][NextCodec]_vars

\* C26: for a code point from 0x10000 to 0x10ffff, high = 0xD800 + (c-0x10000)
\* div 0x400 is a high and low = 0xDC00 + (c-0x10000) mod 0x400 a low surrogate,
\* the decoder makes of the escapes of that pair the four bytes of c in UTF-8,
\* and the encoder makes of these bytes the escapes of high and low again.
SurrogatePairsInverse ==
    \A c \in SurrogateCodePoints :
        /\ HighSurrogate(c) \in 55296..56319
        /\ LowSurrogate(c) \in 56320..57343
        /\ 65536 + (HighSurrogate(c) - 55296) * 1024 + (LowSurrogate(c) - 56320) = c
        /\ (codec.s = PairEscape(c) /\ codec.pc \in {"decoded", "encoded"})
           => codec.decoded = Lit(FourByteForm(c))
        /\ (codec.s = PairEscape(c) /\ codec.pc = "encoded")
           => codec.encoded = Lit(PairEscape(c))

\* The escapes of the pair of U+10FFFF have been decoded and encoded again.
SurrogatePairsWitness ==
    /\ codec.pc = "encoded"
    /\ codec.s = Str(<<"\\","x","d","b","f","f","\\","x","d","f","f","f">>)
    /\ codec.decoded.text = <<244, 143, 191, 191>>
    /\ codec.encoded.text = codec.s

-----------------------------------------------------------------------------
(* SpecSave: sections are added, and the document is written *)

\* The names of the sections: two plain ones, and the two spellings of the
\* name of the global section.
SavedSectionNames == {NameS, NameT, HI_Global, hi_global}

NextSave ==
    \/ \E sectionName \in SavedSectionNames : AddSection(sectionName)
    \/ \E sectionName \in {GlobalName, NameS, hi_global} : SetValue(sectionName, KeyK, Text1)
    \/ \E sectionName \in {NameS, NameT} : RemoveSection(sectionName)
    \/ \E formatted \in BOOLEAN : WriteFileCall(formatted)

SpecSave == Init /\ [][NextSave]_vars

\* The names between [ and ] of the lines of the file that start with [, in the
\* order of the file, from position i on; name is the one being read, when in
\* a header.
RECURSIVE HeadersFrom(_, _, _, _)
HeadersFrom(bytes, i, inHeader, name) ==
    IF i > Len(bytes) THEN <<>>
    ELSE IF inHeader
    THEN IF bytes[i] = RBRACKET
         THEN <<name>> \o HeadersFrom(bytes, i + 1, FALSE, <<>>)
         ELSE HeadersFrom(bytes, i + 1, TRUE, Append(name, bytes[i]))
    ELSE HeadersFrom(bytes, i + 1,
                     bytes[i] = LBRACKET /\ (i = 1 \/ bytes[i - 1] \in {LF, CR}), <<>>)

\* The names of the sections of the document but the global one, in their order.
RECURSIVE NamedSections(_, _)
NamedSections(data, i) ==
    IF i > Len(data) THEN <<>>
    ELSE (IF data[i].mSectionName = GlobalName THEN <<>> ELSE <<data[i].mSectionName>>)
         \o NamedSections(data, i + 1)

\* C27: the file WriteFile has written has no header for the global section and
\* one header [name] for every other section of the document, in the order of
\* the sections, in either build and whatever the name of the section is.
HeadersWritten ==
    (file.written /\ file.ret = "true")
    => HeadersFrom(file.bytes, 1, FALSE, <<>>) = NamedSections(mData, 1)

\* The same for the documents without a section that has the other spelling of
\* the name of the global section.
HeadersWrittenOfPlainNames ==
    (\A i \in 1..Len(mData) : mData[i].mSectionName \in {GlobalName, NameS, NameT})
    => HeadersWritten

-----------------------------------------------------------------------------
(* SpecArraySave: arrays get elements with and without an index, and are written *)

\* The files: an element with the index 5, alone and before one without.
IndexedTexts ==
    { Str(<<"a","[","5","]","=","1">>),
      JoinLines(<<Str(<<"k","[","5","]","=","1">>), Str(<<"k","[","]","=","1">>)>>) }

NextArraySave ==
    \/ \E key \in {KeyA, KeyK}, arrayIndex \in {NullOpt, Some(Text5)} :
          SetArrayEntry(GlobalName, key, arrayIndex)
    \/ \E keyName \in {KeyA, KeyK} : RemoveKey(GlobalName, keyName)
    \/ \E bytes \in IndexedTexts : ParseFileCall(bytes)
    \/ \E formatted \in BOOLEAN : WriteFileCall(formatted)

SpecArraySave == Init /\ [][NextArraySave]_vars

\* The line of an element of the array key, all values being 1 without quotes:
\* with its sub-key between the brackets when indexed, with nothing when not.
ElementLine(key, element, indexed, formatted) ==
    key \o <<LBRACKET>> \o (IF indexed THEN element.mKey ELSE <<>>) \o <<RBRACKET>>
    \o (IF formatted THEN <<SPACE, EQUALS, SPACE>> ELSE <<EQUALS>>) \o element.mValue

\* The lines of the elements of the arrays from entry i, element n on.  An
\* element is taken as added with an index when its sub-key is 5: the arrays
\* have at most MaxArray elements, so no element gets that sub-key by itself.
RECURSIVE ElementLines(_, _, _, _, _)
ElementLines(pairs, i, n, indexedKeys, formatted) ==
    IF i > Len(pairs) THEN <<>>
    ELSE IF n > Len(pairs[i].mArray) THEN ElementLines(pairs, i + 1, 1, indexedKeys, formatted)
    ELSE <<ElementLine(pairs[i].mKey, pairs[i].mArray[n],
                       pairs[i].mArray[n].mKey \in indexedKeys, formatted)>>
         \o ElementLines(pairs, i, n + 1, indexedKeys, formatted)

\* Lines joined by the newline of the style, with one more at the end of a
\* formatted file.
RECURSIVE JoinedLines(_, _)
JoinedLines(lines, formatted) ==
    IF lines = <<>> THEN <<>>
    ELSE IF Len(lines) = 1 THEN Head(lines) \o (IF formatted THEN mNewline ELSE <<>>)
    ELSE Head(lines) \o mNewline \o JoinedLines(Tail(lines), formatted)

\* The file WriteFile has written has one line for each element of the arrays
\* of the global section, the elements with a sub-key of indexedKeys written
\* with it.
ArraysWritten(indexedKeys) ==
    (file.written /\ file.ret = "true")
    => file.bytes = JoinedLines(ElementLines(GlobalEntries(mData), 1, 1, indexedKeys,
                                             file.formatted), file.formatted)

\* C28: WriteFile writes one line for each element of an array, key[N]=value
\* for an element added with the index N and key[]=value for one added without,
\* whatever the other elements of the array are.
ArrayRenderedPerElement == ArraysWritten({Text5})

\* When the first entry of the global section has at most one element, WriteFile
\* writes one line for each element of an array, and each line as key[]=value.
ArrayRenderedUnindexed ==
    (GlobalEntries(mData) # <<>> => Len(GlobalEntries(mData)[1].mArray) <= 1)
    => ArraysWritten({})

-----------------------------------------------------------------------------
(* SpecFailed: the calls that return false *)

\* stream.RemoveComment(sectionName, keyName)
RemoveComment(sectionName, keyName) ==
    LET r == Stream_RemoveComment(mData, sectionName, keyName) IN
    DocumentCall(r.data, Call("RemoveComment", sectionName, Some(keyName), "", r.ret))

\* stream.RemoveEmptyLine(sectionName, keyName)
RemoveEmptyLine(sectionName, keyName) ==
    LET r == Stream_RemoveEmptyLine(mData, sectionName, keyName) IN
    DocumentCall(r.data, Call("RemoveEmptyLine", sectionName, Some(keyName), "", r.ret))

\* The sections and the keys the calls are given: the global section, by its
\* empty name where that stands for it, a section the document may have and one
\* it has after a renaming only; a key of a value, and the keys of the first
\* comment and the first empty line of a section.
FailedSectionNames == {NameS, NameT}
FailedKeySections == {GlobalName, NameT}
FailedLineSections == {<<>>, NameT}
FailedKeyNames == {KeyK, KeyA}
FailedLineKeys == {KeyK, CommentKeyStart \o Text1, EmptyLineKeyStart \o Text1}

NextFailed ==
    \/ AddSection(NameS)
    \/ SetValue(GlobalName, KeyK, Text1)
    \/ \E sectionName \in FailedSectionNames : RemoveSection(sectionName)
    \/ \E oldSectionName \in FailedSectionNames : RenameSection(oldSectionName, NameT)
    \/ \E sectionName \in FailedKeySections, newKeyName \in FailedKeyNames :
          RenameKey(sectionName, KeyK, newKeyName)
    \/ \E sectionName \in FailedKeySections, keyName \in FailedKeyNames :
          RemoveKey(sectionName, keyName)
    \/ \E sectionName \in FailedKeySections : ClearSection(sectionName)
    \/ \E sectionName \in FailedKeySections : SetInlineComment(sectionName, KeyK, TextC)
    \/ \E sectionName \in FailedSectionNames : SetSectionInlineComment(sectionName, TextC)
    \/ \E sectionName \in FailedLineSections : SetComment(sectionName, PosEnd, NullOpt)
    \/ SetEmptyLine(NameT, PosEnd, NullOpt)
    \/ \E sectionName \in FailedLineSections, keyName \in FailedLineKeys :
          RemoveComment(sectionName, keyName)
    \/ \E sectionName \in FailedLineSections, keyName \in FailedLineKeys :
          RemoveEmptyLine(sectionName, keyName)

SpecFailed == Init /\ [][NextFailed]_vars

\* The calls on the document that return a boolean.
BooleanMutators ==
    {"AddSection", "RemoveSection", "RenameSection", "RenameKey", "RemoveKey", "ClearSection",
     "SetInlineComment", "SetSectionInlineComment", "SetComment", "SetEmptyLine",
     "RemoveComment", "RemoveEmptyLine"}

\* A call that has returned false has left the document as it was.
FailedCallKept ==
    (last'.op \in BooleanMutators /\ last'.ret = "false") => mData' = mData

\* The entries of the section a call of RemoveComment or RemoveEmptyLine names.
LineSectionEntries(data, sectionName) ==
    LET at == FindSection(data, Fold(EmptyMeansGlobal(sectionName))) IN
    IF at = 0 THEN <<>> ELSE data[at].mKeyValuePairs

\* The call has named an entry, and no entry with that key is of the kind type.
OfOtherKind(data, call, type) ==
    LET pairs == LineSectionEntries(data, call.sectionName) IN
    /\ FindKey(pairs, Fold(call.keyName.val)) # 0
    /\ FindKeyOfType(pairs, Fold(call.keyName.val), type) = 0

\* RemoveComment and RemoveEmptyLine given the key of an entry of another kind
\* return false and leave the document as it was.
OtherKindKept ==
    /\ (last'.op = "RemoveComment" /\ OfOtherKind(mData, last', TypeComment))
       => (last'.ret = "false" /\ mData' = mData)
    /\ (last'.op = "RemoveEmptyLine" /\ OfOtherKind(mData, last', TypeEmpty))
       => (last'.ret = "false" /\ mData' = mData)

\* C30: a call of AddSection, RemoveSection, RenameSection, RenameKey,
\* RemoveKey, ClearSection, SetInlineComment, SetSectionInlineComment,
\* SetComment, SetEmptyLine, RemoveComment or RemoveEmptyLine that returns false
\* leaves the document (the sections, their order, their entries, values,
\* inline comments and counters) as it was before the call, and RemoveComment
\* and RemoveEmptyLine given the key of an entry of another kind return false
\* and remove nothing.
FailedMutationKeeps == [][FailedCallKept /\ OtherKindKept]_vars

\* C30's case: RemoveComment or RemoveEmptyLine has been given the key of an
\* entry of another kind, in a document with a second section, a comment and an
\* empty line, and has returned false.
FailedMutationWitness ==
    /\ Len(mData) >= 2
    /\ \/ last.op = "RemoveComment" /\ OfOtherKind(mData, last, TypeComment)
       \/ last.op = "RemoveEmptyLine" /\ OfOtherKind(mData, last, TypeEmpty)
    /\ last.ret = "false"
    /\ \E i \in 1..Len(mData) : mData[i].mCommentLineCount > 0
    /\ \E i \in 1..Len(mData) : mData[i].mEmptyLineCount > 0

=============================================================================
